---- MODULE Spec2Model ----
(***************************************************************************)
(* endershare: a master node publishes signed updates (data entries and    *)
(* the authorized peer list); replicas follow them with processUpdate,     *)
(* by fast-forward or by a full sync against the sending peer.             *)
(*                                                                         *)
(* Hashes are modelled structurally (collision free): a Merkle root is the *)
(* sequence of its buckets' contents, a peer-list hash the set of peer     *)
(* ids; the all-zero hash is the root of one empty bucket / the empty set. *)
(***************************************************************************)
EXTENDS Integers, Sequences, FiniteSets, TLC

VARIABLES node, net, pub, calls, last, bind, dl, mt, cs, stor, app, md, rs, df, nh, tc, ml, ks, ft

\* The nodes and what passes between them.
coreVars == <<node, net, pub, calls, last, bind>>

\* One node on its own: a blob download (dl), a Merkle tree (mt), an
\* encrypted stream (cs), the folder storage (stor), the application (app).
\* What the later models add: a range scan of the data table (rs), a
\* comparison of two trees (df), the notify service of a node (nh), the
\* tree of a node with a goroutine that changes it and one that reads it
\* (tc), the master and the log of its updates (ml), the keys of a node in
\* its database and in memory (ks), the data table of an unlocked app with
\* the folder tag of each row (ft).
auxVars == <<rs, df, nh, tc, ml, ks, ft>>

oldVars == <<dl, mt, cs, stor, app, md>>

localVars == <<dl, mt, cs, stor, app, md, auxVars>>

vars == <<node, net, pub, calls, last, bind, dl, mt, cs, stor, app, md, rs, df, nh, tc, ml, ks, ft>>

\* ---------------------------------------------------------------- bounds
MaxCalls == 2
MaxPublished == 2
HashSpace == 7
MaxBuckets == 2
MaxBlob == 3
\* The write buffer of downloadFile (20 MiB in the code), in units.
WRITE_BUFFER_SIZE == 2

\* The hashes a handleMetadataRequest batch holds (256 in the code) and the
\* number of data entries of the metadata model.
METADATA_BATCH == 2

MaxMeta == 4

\* The values a hash of the bucketed tree can take (2^256 in the code).
TreeSpace == 24

\* The longest list and the most buckets a tree is first built with.
MaxNewHashes == 3

MaxNewBuckets == 3

\* The updates the vault model publishes.
MaxAppUpdates == 3

\* Stream encryption in units: the plaintext of a frame (64 KiB in the
\* code), the GCM nonce (12 bytes), the GCM tag (16 bytes), and the longest
\* plaintext.
chunkSize == 2

NonceSize == 1

Overhead == 1

MaxPlain == 4

\* The folder ids the folder model hands out.
MaxFolderID == 5

\* The messages the gossip subscription of a node buffers.
MaxInbox == 2

\* The Insert and Delete calls made on a tree while a stream handler reads it.
MaxTreeOps == 2

\* The updates the master of the log model publishes.
MaxLog == 3

\* ------------------------------------------------------- program constants
HASHES_PER_BUCKET == 10

Node == {"M", "R"}
Threads == {"t1", "t2"}
\* The values a hash can take, and the hashes the publish calls are given.
Hash == 0..(HashSpace - 1)
PublishedHashes == 0..(MaxPublished - 1)
BoundPeers == {"R"}
DataActions == {"ADD", "DELETE"}

\* The update ids the publish calls can reach.
MaxUpdateID == MaxCalls + 1

\* The key of the entry a hash was computed from: hashes 0 and 1 are two
\* contents of one key, every other hash is the only content of its key.
KeyOf(h) == IF h = 1 THEN 0 ELSE h

\* A file entry has a non-nil value (a blob); hash 1 is a folder entry.
HasValue(h) == h # 1

\* ------------------------------------------------------------ Merkle tree
\* A tree is [nb |-> number of buckets, hs |-> the hashes it holds].

\* A bucket count that is always one.
calculateNumBucketsAlwaysOne(numHashes) == 1

calculateNumBuckets(numHashes) ==
    IF numHashes = 0 THEN 1
    ELSE (numHashes + HASHES_PER_BUCKET - 1) \div HASHES_PER_BUCKET

\* getBucketIndex over a hash space of the given size.
getBucketIndexIn(space, h, numBuckets) ==
    IF numBuckets <= 1 THEN 0
    ELSE LET bucketSize == space \div numBuckets
             idx == IF bucketSize = 0 THEN numBuckets ELSE h \div bucketSize
         IN  IF idx >= numBuckets THEN numBuckets - 1 ELSE idx

getBucketIndex(h, numBuckets) == getBucketIndexIn(HashSpace, h, numBuckets)

NewMerkleTreeWithBuckets(hashes, numBuckets) ==
    [nb |-> IF numBuckets < 1 THEN 1 ELSE numBuckets, hs |-> hashes]

NewMerkleTree(hashes) ==
    NewMerkleTreeWithBuckets(hashes, calculateNumBuckets(Cardinality(hashes)))

GetBucketData(t, i) == {h \in t.hs : getBucketIndex(h, t.nb) = i}

\* The bucket hashes in order; an empty bucket hashes to zero (the empty set).
GetBucketHashes(t) == [i \in 1..t.nb |-> GetBucketData(t, i - 1)]

\* One bucket: the root is the bucket's hash.  More: a hash over all of them.
GetRootHash(t) == GetBucketHashes(t)

ZeroHash == <<{}>>
ZeroPeerHash == {}

rebuild(t) == NewMerkleTree(t.hs)

TreeInsert(t, h) ==
    IF h \in t.hs THEN t
    ELSE LET t1 == [t EXCEPT !.hs = @ \cup {h}]
         IN  IF Cardinality(t1.hs) > 2 * HASHES_PER_BUCKET * t1.nb
             THEN rebuild(t1) ELSE t1

TreeDelete(t, h) ==
    LET t1 == [t EXCEPT !.hs = @ \ {h}]
        total == Cardinality(t1.hs)
    IN  IF total > 0 /\ 4 * total < HASHES_PER_BUCKET * t1.nb /\ t1.nb > 1
        THEN rebuild(t1) ELSE t1

\* ------------------------------------------------------------- peer list
\* peerInfoFromPeerUpdate casts the text of the id to a raw peer.ID, and
\* AddPeer stores the text form of that: not the id that was sent.
RecodedPeerID(p) ==
    CASE p = "M" -> "M*" [] p = "R" -> "R*" [] p = "P" -> "P*" [] OTHER -> p

\* GetPeers drops the rows whose id does not decode.
ValidPeerID(p) == p \in {"M", "R", "P"}

ComputePeerListHash(peerIDs) == peerIDs

\* ------------------------------------------------------------ data table
\* rows: the hashes of the rows of the data table (one row per key);
\* stale: the rows with in_current = 0.
PutData(s, h) ==
    [s EXCEPT !.rows = {x \in @ : KeyOf(x) # KeyOf(h)} \cup {h},
              !.stale = {x \in @ : KeyOf(x) # KeyOf(h)}]

DeleteData(s, h) ==
    [s EXCEPT !.rows = {x \in @ : KeyOf(x) # KeyOf(h)},
              !.stale = {x \in @ : KeyOf(x) # KeyOf(h)}]

MarkAllStale(s) == [s EXCEPT !.stale = s.rows]

MarkHashCurrent(s, h) == [s EXCEPT !.stale = @ \ {h}]

GetStaleHashes(s) == s.stale

DeleteStaleEntries(s) == [s EXCEPT !.rows = @ \ s.stale, !.stale = {}]

\* computeBucketRange writes the 33 bytes of 2^256 into a 32 byte slice for
\* the last of several buckets: the slice expression is out of range.
computeBucketRangePanics(bucketIdx, numBuckets) ==
    numBuckets > 1 /\ bucketIdx = numBuckets - 1

DBGetBucketHashes(s, bucketIdx, numBuckets) ==
    {h \in s.rows : getBucketIndex(h, numBuckets) = bucketIdx}

insertData(s, h) == [PutData(s, h) EXCEPT !.tree = TreeInsert(@, h)]

deleteData(s, h) == [DeleteData(s, h) EXCEPT !.tree = TreeDelete(@, h)]

updateDataHash(s) == [s EXCEPT !.dataHash = GetRootHash(s.tree)]

\* ------------------------------------------------- requests to the sender
\* net input f: the peer the update was received from (the master, or P, a
\* peer that relays the master's updates and serves the master's state) and
\* which of the streams to it work once opened (at most one fails).
AllStreamsWork ==
    [from |-> "P", peerList |-> TRUE, treeBuckets |-> TRUE, dataBuckets |-> TRUE,
     metadata |-> TRUE]

NoStreamWorks ==
    [from |-> "P", peerList |-> FALSE, treeBuckets |-> FALSE, dataBuckets |-> FALSE,
     metadata |-> FALSE]

NetInputs ==
    {AllStreamsWork,
     [AllStreamsWork EXCEPT !.from = "M"],
     [AllStreamsWork EXCEPT !.peerList = FALSE],
     [AllStreamsWork EXCEPT !.treeBuckets = FALSE],
     [AllStreamsWork EXCEPT !.dataBuckets = FALSE],
     [AllStreamsWork EXCEPT !.metadata = FALSE]}

\* The in-memory peer map of the p2p node.
checkPeerAllowed(s, peerID) == peerID \in s.allowed

\* NewStreamToPeer returns "peer not allowed" when checkPeerAllowed is true.
NewStreamToPeerRefuses(s, peerID) == checkPeerAllowed(s, peerID)

\* A NewStreamHandler that hands every stream to the handler.
NewStreamHandlerNeverResets(s, remotePeer) == FALSE

\* The wrapper NewStreamHandler puts around every sync handler.
NewStreamHandlerResets(s, remotePeer) == ~checkPeerAllowed(s, remotePeer)

\* The streams a request of s gets: none when NewStreamToPeer refuses.
StreamsTo(s, f) == IF NewStreamToPeerRefuses(s, f.from) THEN NoStreamWorks ELSE f

Outcome(s, res, streams) == [st |-> s, res |-> res, streams |-> streams]

RECURSIVE InsertAll(_, _, _)
\* The loop over the metadata entries, in the order they were asked for.
InsertAll(s, hashes, withTree) ==
    IF hashes = {} THEN s
    ELSE LET h == CHOOSE x \in hashes : \A y \in hashes : x <= y
             s1 == IF withTree THEN insertData(s, h) ELSE PutData(s, h)
         IN  InsertAll(s1, hashes \ {h}, withTree)

RECURSIVE DeleteAllFromTree(_, _)
DeleteAllFromTree(t, hashes) ==
    IF hashes = {} THEN t
    ELSE LET h == CHOOSE x \in hashes : \A y \in hashes : x <= y
         IN  DeleteAllFromTree(TreeDelete(t, h), hashes \ {h})

\* downloadFile returns at once on a node without storage.
DownloadStreams(s, hashes) ==
    IF s.storage /\ \E h \in hashes : HasValue(h) THEN {"file-data"} ELSE {}

\* handlePeerListRequest on the sender p.
RequestPeerList(p) == {x \in p.peers : ValidPeerID(x)}

\* handleTreeBucketHashesRequest on the sender p: nothing on another bucket count.
RequestTreeBucketHashes(p, numBuckets, f) ==
    IF f.treeBuckets /\ p.tree.nb = numBuckets THEN GetBucketHashes(p.tree) ELSE <<>>

\* handleDataBucketHashesRequest on the sender p, whose handler dies on the
\* last of several buckets: the requester then reads no reply.
RequestDataBucketHashesFails(indices, numBuckets, f) ==
    indices # {} /\
    (~f.dataBuckets \/ \E i \in indices : computeBucketRangePanics(i, numBuckets))

syncPeerListFull(s, expectedHash, p, f) ==
    IF ~f.peerList THEN Outcome(s, "err", {})
    ELSE LET s1 == [s EXCEPT !.peers = RequestPeerList(p)]
         IN  IF ComputePeerListHash(s1.peers) # expectedHash
             THEN Outcome(s1, "err", {"peer-list"})
             ELSE Outcome(s1, "ok", {"peer-list"})

applyPeerUpdate(s, u, p, f) ==
    IF u.action \notin {"ADD", "REMOVE"} THEN Outcome(s, "err", {})
    ELSE LET s1 == IF u.action = "ADD"
                   THEN IF u.peer \in s.peers THEN s
                        ELSE [s EXCEPT !.peers = @ \cup {RecodedPeerID(u.peer)}]
                   ELSE [s EXCEPT !.peers = @ \ {u.peer}]
         IN  IF ComputePeerListHash(s1.peers) # u.plh
             THEN syncPeerListFull(s1, u.plh, p, f)
             ELSE Outcome(s1, "ok", {})

syncPeerList(s, u, p, f) ==
    IF u.plh = s.plHash THEN Outcome(s, "ok", {})
    ELSE IF u.pplh = s.plHash /\ u.type = "PEER" THEN applyPeerUpdate(s, u, p, f)
    ELSE syncPeerListFull(s, u.plh, p, f)

\* The fast-forward of a data update.
applyDataUpdate(s, u) ==
    IF u.action \in {"ADD", "MODIFY"}
    THEN Outcome(updateDataHash(insertData(s, u.hash)), "ok", DownloadStreams(s, {u.hash}))
    ELSE IF u.action = "DELETE"
    THEN Outcome(updateDataHash(deleteData(s, u.hash)), "ok", {})
    ELSE Outcome(s, "err", {})

rebuildTreeFromPeer(s, numBuckets, expectedHash, p, f) ==
    LET allIndices == 0..(numBuckets - 1)
        asked == IF allIndices = {} THEN {} ELSE {"data-bucket-hashes"}
    IN
    IF RequestDataBucketHashesFails(allIndices, numBuckets, f)
    THEN Outcome(s, "err", IF f.dataBuckets THEN asked ELSE {})
    ELSE
    LET allPeerHashes ==
            UNION {DBGetBucketHashes(p, i, numBuckets) : i \in allIndices}
        hashesToDownload ==
            {h \in allPeerHashes :
                h \notin DBGetBucketHashes(s, getBucketIndex(h, numBuckets), numBuckets)}
        s1 == [MarkAllStale(s) EXCEPT !.stale = @ \ allPeerHashes]
    IN
    IF \E i \in allIndices : computeBucketRangePanics(i, numBuckets)
    THEN Outcome(s1, "panic", asked)
    ELSE IF hashesToDownload # {} /\ ~f.metadata THEN Outcome(s1, "err", asked)
    ELSE
    LET s2 == InsertAll(s1, hashesToDownload, FALSE)
        s3 == DeleteStaleEntries(s2)
        s4 == updateDataHash(
                [s3 EXCEPT !.tree = NewMerkleTreeWithBuckets(allPeerHashes, numBuckets)])
        streams == asked \cup (IF hashesToDownload # {} THEN {"metadata"} ELSE {})
                         \cup DownloadStreams(s, hashesToDownload)
    IN  IF GetRootHash(s4.tree) # expectedHash
        THEN Outcome(s4, "err", streams) ELSE Outcome(s4, "ok", streams)

syncDataFull(s, u, p, f) ==
    IF s.tree.nb # u.nb THEN rebuildTreeFromPeer(s, u.nb, u.dh, p, f)
    ELSE
    LET peerTreeBuckets == RequestTreeBucketHashes(p, u.nb, f)
        localTreeBuckets == GetBucketHashes(s.tree)
        diffBucketIndices ==
            {i \in 0..(Len(localTreeBuckets) - 1) :
                i >= Len(peerTreeBuckets) \/ localTreeBuckets[i + 1] # peerTreeBuckets[i + 1]}
        s1 == MarkAllStale(s)
        tb == IF f.treeBuckets THEN {"tree-bucket-hashes"} ELSE {}
        asked == tb \cup (IF diffBucketIndices # {} /\ f.dataBuckets
                          THEN {"data-bucket-hashes"} ELSE {})
    IN
    IF RequestDataBucketHashesFails(diffBucketIndices, u.nb, f)
    THEN Outcome(s1, "err", asked)
    ELSE IF \E i \in diffBucketIndices : computeBucketRangePanics(i, u.nb)
    THEN Outcome(s1, "panic", asked)
    ELSE
    LET peerDataHashes ==
            UNION {DBGetBucketHashes(p, i, u.nb) : i \in diffBucketIndices}
        hashesToDownload == {h \in peerDataHashes : h \notin s1.rows}
        s2 == [s1 EXCEPT !.stale = @ \ peerDataHashes]
    IN
    IF hashesToDownload # {} /\ ~f.metadata THEN Outcome(s2, "err", asked)
    ELSE
    LET s3 == InsertAll(s2, hashesToDownload, TRUE)
        s4 == [s3 EXCEPT !.tree = DeleteAllFromTree(@, GetStaleHashes(s3))]
        s5 == updateDataHash(DeleteStaleEntries(s4))
        streams == asked \cup (IF hashesToDownload # {} THEN {"metadata"} ELSE {})
                         \cup DownloadStreams(s, hashesToDownload)
    IN  IF GetRootHash(s5.tree) # u.dh
        THEN Outcome(s5, "err", streams) ELSE Outcome(s5, "ok", streams)

\* A syncData without the check that the data hash is already the update's.
syncDataAlwaysFull(s, u, p, f) == syncDataFull(s, u, p, f)

syncData(s, u, p, f) ==
    IF u.dh = s.dataHash THEN Outcome(s, "ok", {})
    ELSE IF u.pdh = s.dataHash /\ u.type = "DATA" THEN applyDataUpdate(s, u)
    ELSE syncDataFull(s, u, p, f)

\* ------------------------------------------------------- signed updates
\* A processUpdate that accepts whatever signature the update carries.
VerifyAnySignature(su) == TRUE

\* sig names the key that signed the update bytes.
VerifySignedUpdate(su) == su.sig = "master"

\* A processUpdate that drops only the ids below the current one.
AlreadyProcessedStrict(u, currentID) == u.id < currentID

\* A processUpdate that drops nothing.
AlreadyProcessedNever(u, currentID) == FALSE

AlreadyProcessed(u, currentID) == u.id <= currentID

InsertSignedUpdate(s, su) == [s EXCEPT !.log[su.id] = <<su>>]

processUpdate(s, su, p, f) ==
    IF ~VerifySignedUpdate(su) THEN Outcome(s, "badsig", {})
    ELSE IF AlreadyProcessed(su, s.cur) THEN Outcome(s, "drop", {})
    ELSE
    LET g == StreamsTo(s, f)
        r1 == syncPeerList(s, su, p, g)
    IN  IF r1.res # "ok" THEN r1
    ELSE
    LET r2 == syncData(r1.st, su, p, g)
        streams == r1.streams \cup r2.streams
    IN  IF r2.res # "ok" THEN Outcome(r2.st, r2.res, streams)
    ELSE
    LET s1 == [r2.st EXCEPT !.cur = su.id, !.plHash = su.plh, !.dataHash = su.dh,
                            !.latest = <<su>>]
    IN  Outcome(InsertSignedUpdate(s1, su), "ok", streams)

\* ------------------------------------------------------------ node state
\* M is the master (it holds the master private key), R a replica that binds
\* to it; P is a further peer the master may authorize.
InitNode(n) ==
    [bound |-> n = "M", priv |-> n = "M", storage |-> n = "M",
     peers |-> {}, allowed |-> {}, rows |-> {}, stale |-> {}, tree |-> NewMerkleTree({}),
     cur |-> 0, dataHash |-> GetRootHash(NewMerkleTree({})), plHash |-> ZeroPeerHash,
     lastest |-> <<>>, latest |-> <<>>,
     log |-> [i \in 1..MaxUpdateID |-> <<>>]]

IdleFrame ==
    [pc |-> "idle", op |-> "", action |-> "", hash |-> 0, peer |-> "",
     currentID |-> 0, prevDH |-> ZeroHash, prevPLH |-> ZeroPeerHash,
     su |-> <<>>, pre |-> <<>>]

\* last: the operation the last step completed, its result and the streams
\* it opened to the sender.
NoOp == [op |-> "", n |-> "", res |-> "", streams |-> {}, peer |-> ""]

Done(op, n, res, streams) ==
    [op |-> op, n |-> n, res |-> res, streams |-> streams, peer |-> ""]

\* The same, for a stream opened to or by the peer.
DoneWith(op, n, res, streams, peer) ==
    [op |-> op, n |-> n, res |-> res, streams |-> streams, peer |-> peer]

\* bind: the bind handler of the replica (BindToClient), its position in
\* mutualVerification and what it has read from the stream.
IdleBind ==
    [pc |-> "listening", peer |-> "", ourChallenge |-> "", challenge |-> "",
     ourResponse |-> <<>>, result |-> FALSE, clientInfo |-> <<>>]

\* ------------------------------------------------------------ blobs
\* The blobs the master adds, by the name (BLAKE3 hash) of their content; a
\* blob is a sequence of units, one unit being what one stream read returns.
Blobs == {"b1", "b2"}

BlobSize(h) == IF h = "b1" THEN MaxBlob ELSE 1

BlobData(h) == [i \in 1..BlobSize(h) |-> <<h, i>>]

\* The BLAKE3 hash of a file's content: the name of the blob with that
\* content, or a hash that names no blob.
Blake3File(content) ==
    IF \E h \in Blobs : BlobData(h) = content
    THEN CHOOSE h \in Blobs : BlobData(h) = content
    ELSE "other"

\* dl: a node with storage that follows the master's data updates: the
\* rows of its data table that carry a blob (with download_progress), its
\* blob files, the updates the master published, and what the last handler did.
IdleDownload ==
    [storage |-> TRUE, allowed |-> {"M"}, published |-> 0, cur |-> 0,
     rows |-> {}, progress |-> [h \in Blobs |-> 0], file |-> [h \in Blobs |-> <<>>],
     op |-> "", via |-> "", inbox |-> <<>>, done |-> <<>>]

IdleCore ==
    /\ node = [n \in Node |-> InitNode(n)]
    /\ net = {}
    /\ pub = [t \in Threads |-> IdleFrame]
    /\ calls = 0
    /\ last = NoOp
    /\ bind = IdleBind

\* ------------------------------------------------ the bucketed tree
\* A tree is [Buckets, NumBuckets, Root, totalHashes]; a bucket is
\* [Hashes, cachedHash, hashValid]; BLAKE3 of a byte string is the string.
Blake3(hashes) == <<"blake3", hashes>>

Zero32 == <<"zero", <<>>>>

\* Bucket.GetHash: the hash it returns.
Bucket_GetHash(b) ==
    IF b.hashValid THEN b.cachedHash
    ELSE IF b.Hashes = <<>> THEN Zero32
    ELSE Blake3(b.Hashes)

\* Bucket.GetHash: the bucket it leaves, the hash cached.
Bucket_Cached(b) == [b EXCEPT !.cachedHash = Bucket_GetHash(b), !.hashValid = TRUE]

Bucket_Invalidate(b) == [b EXCEPT !.hashValid = FALSE]

EmptyBucket == [Hashes |-> <<>>, cachedHash |-> Zero32, hashValid |-> FALSE]

\* A sort that leaves the list as it came.
sortHashesKeepsOrder(hashes) == hashes

RECURSIVE sortHashes(_)
\* sortHashes: ascending by value, by insertion.
sortHashes(hashes) ==
    IF hashes = <<>> THEN <<>>
    ELSE LET rest == sortHashes(Tail(hashes))
             h == Head(hashes)
             below == SelectSeq(rest, LAMBDA x : x < h)
             above == SelectSeq(rest, LAMBDA x : ~(x < h))
         IN  below \o <<h>> \o above

RECURSIVE buildTreeFromNodes(_)
\* buildTreeFromNodes: the hash of the root over the node hashes.
buildTreeFromNodes(nodes) ==
    IF Len(nodes) = 0 THEN Zero32
    ELSE IF Len(nodes) = 1 THEN nodes[1]
    ELSE buildTreeFromNodes(
            [i \in 1..((Len(nodes) + 1) \div 2) |->
                IF 2 * i <= Len(nodes)
                THEN Blake3(<<nodes[2 * i - 1], nodes[2 * i]>>)
                ELSE Blake3(<<nodes[2 * i - 1]>>)])

buildTree(buckets) ==
    buildTreeFromNodes([i \in 1..Len(buckets) |-> Bucket_GetHash(buckets[i])])

\* The buckets after buildTree asked each for its hash.
CachedBuckets(buckets) == [i \in 1..Len(buckets) |-> Bucket_Cached(buckets[i])]

newMerkleTreeWithBuckets(hashes, numBuckets) ==
    LET nb == IF numBuckets < 1 THEN 1 ELSE numBuckets
        buckets ==
            [i \in 1..nb |->
                [EmptyBucket EXCEPT !.Hashes =
                    sortHashes(SelectSeq(hashes,
                        LAMBDA h : getBucketIndexIn(TreeSpace, h, nb) = i - 1))]]
    IN  [Buckets |-> CachedBuckets(buckets), NumBuckets |-> nb,
         Root |-> buildTree(buckets), totalHashes |-> Len(hashes)]

newMerkleTree(hashes) == newMerkleTreeWithBuckets(hashes, calculateNumBuckets(Len(hashes)))

MerkleTree_GetRootHash(t) == t.Root

MerkleTree_GetBucketHashes(t) == [i \in 1..Len(t.Buckets) |-> Bucket_GetHash(t.Buckets[i])]

RECURSIVE Flatten(_)
Flatten(buckets) ==
    IF buckets = <<>> THEN <<>> ELSE Head(buckets).Hashes \o Flatten(Tail(buckets))

MerkleTree_rebuild(t) ==
    LET allHashes == Flatten(t.Buckets)
    IN  newMerkleTreeWithBuckets(allHashes, calculateNumBuckets(Len(allHashes)))

\* An Insert that never takes a hash for a duplicate.
InsertFindsNoDuplicate(hs, hash) == FALSE

\* The duplicate test of Insert: the scan meets the hash before it breaks.
InsertFindsDuplicate(hs, hash) ==
    \E i \in 1..Len(hs) : hs[i] = hash /\ \A j \in 1..(i - 1) : ~(hash < hs[j])

\* The position Insert puts the hash at: before the first greater one.
InsertPos(hs, hash) ==
    IF \E i \in 1..Len(hs) : hash < hs[i]
    THEN (CHOOSE i \in 1..Len(hs) : hash < hs[i] /\ \A j \in 1..(i - 1) : ~(hash < hs[j])) - 1
    ELSE Len(hs)

\* MerkleTree.Insert: the tree after, and whether it was rebuilt.
MerkleTree_Insert(t, hash) ==
    LET bucketIdx == getBucketIndexIn(TreeSpace, hash, t.NumBuckets) + 1
        hs == t.Buckets[bucketIdx].Hashes
        pos == InsertPos(hs, hash)
        t1 == [t EXCEPT !.Buckets[bucketIdx].Hashes =
                            SubSeq(hs, 1, pos) \o <<hash>> \o SubSeq(hs, pos + 1, Len(hs)),
                        !.totalHashes = @ + 1]
        t2 == [t1 EXCEPT !.Buckets[bucketIdx] = Bucket_Invalidate(@)]
    IN  IF InsertFindsDuplicate(hs, hash) THEN [tree |-> t, rebuilt |-> FALSE]
        ELSE IF t1.totalHashes > 2 * HASHES_PER_BUCKET * t1.NumBuckets
        THEN [tree |-> MerkleTree_rebuild(t1), rebuilt |-> TRUE]
        ELSE [tree |-> [t2 EXCEPT !.Buckets = CachedBuckets(@), !.Root = buildTree(t2.Buckets)],
              rebuilt |-> FALSE]

\* MerkleTree.Delete: the tree after, and whether it was rebuilt.
MerkleTree_Delete(t, hash) ==
    LET bucketIdx == getBucketIndexIn(TreeSpace, hash, t.NumBuckets) + 1
        hs == t.Buckets[bucketIdx].Hashes
        found == \E i \in 1..Len(hs) : hs[i] = hash
        at == CHOOSE i \in 1..Len(hs) : hs[i] = hash /\ \A j \in 1..(i - 1) : hs[j] # hash
        t1 == IF found
              THEN [t EXCEPT !.Buckets[bucketIdx].Hashes =
                                 SubSeq(hs, 1, at - 1) \o SubSeq(hs, at + 1, Len(hs)),
                             !.totalHashes = @ - 1]
              ELSE t
        t2 == [t1 EXCEPT !.Buckets[bucketIdx] = Bucket_Invalidate(@)]
    IN  IF t1.totalHashes > 0 /\ 4 * t1.totalHashes < HASHES_PER_BUCKET * t1.NumBuckets
           /\ t1.NumBuckets > 1
        THEN [tree |-> MerkleTree_rebuild(t1), rebuilt |-> TRUE]
        ELSE [tree |-> [t2 EXCEPT !.Buckets = CachedBuckets(@), !.Root = buildTree(t2.Buckets)],
              rebuilt |-> FALSE]

RECURSIVE Sorted(_)
\* The hashes of a set in ascending order.
Sorted(S) ==
    IF S = {} THEN <<>>
    ELSE LET h == CHOOSE x \in S : \A y \in S : x <= y
         IN  <<h>> \o Sorted(S \ {h})

\* The hashes a tree holds.
TreeHashes(t) == {Flatten(t.Buckets)[i] : i \in 1..Len(Flatten(t.Buckets))}

\* The tree of a node, the last operation on it, whether the operation
\* rebuilt the tree and whether the tree held the hash before it.
TreeState(t, op, arg, rebuilt, present) ==
    [tree |-> t, op |-> op, arg |-> arg, rebuilt |-> rebuilt, present |-> present]

IdleTree == mt = TreeState(newMerkleTree(<<>>), "", 0, FALSE, FALSE)

\* ------------------------------------------------- stream encryption
\* A unit of ciphertext is <<kind, key, nonce, index, content>>.
Nonce(id) == [j \in 1..NonceSize |-> <<"nonce", "", id, j, "">>]

\* gcm.Seal(nonce, nonce, plaintext, nil): nonce, ciphertext, tag.
Seal(id, plaintext, key) ==
    Nonce(id)
    \o [i \in 1..Len(plaintext) |-> <<"ct", key, id, i, plaintext[i]>>]
    \o [j \in 1..Overhead |-> <<"tag", key, id, Len(plaintext), "">>]

\* gcm.Open(nil, nonce, ciphertext, nil) under key: the plaintext, or an
\* error when the tag does not authenticate the ciphertext.
Open(nonce, ciphertext, key) ==
    LET m == Len(ciphertext) - Overhead
        plaintext == [i \in 1..m |-> ciphertext[i][5]]
    IN  IF m < 0 \/ nonce = <<>> THEN [ok |-> FALSE, plaintext |-> <<>>]
        ELSE IF nonce \o ciphertext = Seal(nonce[1][3], plaintext, key)
        THEN [ok |-> TRUE, plaintext |-> plaintext]
        ELSE [ok |-> FALSE, plaintext |-> <<>>]

RECURSIVE EncryptFrames(_, _, _, _)
\* EncryptStream: one sealed frame per read of the source, each under a
\* fresh nonce; reads is the number of units each Read returned.
EncryptFrames(x, key, reads, id) ==
    IF reads = <<>> THEN <<>>
    ELSE Seal(id, SubSeq(x, 1, Head(reads)), key)
         \o EncryptFrames(SubSeq(x, Head(reads) + 1, Len(x)), key, Tail(reads), id + 1)

EncryptStream(x, key, reads) == EncryptFrames(x, key, reads, 1)

RECURSIVE DecryptStream(_, _)
\* DecryptStream reading a file: every read fills the buffer of one full
\* frame or takes all that is left.
DecryptStream(c, key) ==
    LET encryptedChunkSize == chunkSize + NonceSize + Overhead
        n == IF Len(c) < encryptedChunkSize THEN Len(c) ELSE encryptedChunkSize
        opened == Open(SubSeq(c, 1, NonceSize), SubSeq(c, NonceSize + 1, n), key)
        rest == DecryptStream(SubSeq(c, n + 1, Len(c)), key)
    IN  IF n = 0 THEN [out |-> <<>>, err |-> ""]
        ELSE IF n < NonceSize THEN [out |-> <<>>, err |-> "panic"]
        ELSE IF ~opened.ok THEN [out |-> <<>>, err |-> "open"]
        ELSE IF n < encryptedChunkSize THEN [out |-> opened.plaintext, err |-> ""]
        ELSE [out |-> opened.plaintext \o rest.out, err |-> rest.err]

RECURSIVE ReadSplits(_)
\* The ways a reader hands n units to a buffer of chunkSize units.
ReadSplits(n) ==
    IF n = 0 THEN {<<>>}
    ELSE UNION {{<<k>> \o r : r \in ReadSplits(n - k)} :
                    k \in 1..(IF n < chunkSize THEN n ELSE chunkSize)}

RECURSIVE FullReads(_)
\* The reads of a reader that fills the buffer whenever it can.
FullReads(n) ==
    IF n = 0 THEN <<>>
    ELSE IF n < chunkSize THEN <<n>>
    ELSE <<chunkSize>> \o FullReads(n - chunkSize)

Plaintexts == UNION {[1..n -> {"a", "b"}] : n \in 0..MaxPlain}

StreamKeys == {"k1", "k2"}

NoStream == [op |-> "", x |-> <<>>, key |-> "", reads |-> <<>>, c |-> <<>>,
             out |-> <<>>, err |-> ""]

IdleStream == cs = NoStream

\* ------------------------------------------------------------ folders
\* The greatest of a set of integers.
MaxOf(S) == CHOOSE x \in S : \A y \in S : x >= y

\* loadNextFolderID: one more than the greatest folder id in the data
\* table, 0 when the table holds no folder.
loadNextFolderID(folders) == MaxOf(folders \cup {-1}) + 1

\* NewStorage over a data table with the given folder entries.
NewStorage(folders) ==
    [folders |-> folders, nextFolderID |-> loadNextFolderID(folders),
     op |-> "", got |-> -1, err |-> "", had |-> folders, after |-> ""]

IdleStorage == stor = NewStorage({})

\* ------------------------------------------------------------ the app
\* The node table stores a hash in base64 and the update id in decimal.
EncodeToString(bytes) == <<"base64", bytes>>

DecodeString(text) == IF text[1] = "base64" THEN text[2] ELSE <<"garbage", text>>

Itoa(n) == <<"decimal", n>>

Atoi(text) == IF text[1] = "decimal" THEN text[2] ELSE -1

Unset == <<"unset", 0>>

\* CryptoKeys: which of the keys are there.
NoKeys == [peer |-> FALSE, masterPub |-> FALSE, masterPriv |-> FALSE, aes |-> FALSE]

CreatePeerOnlyKeys == [peer |-> TRUE, masterPub |-> FALSE, masterPriv |-> FALSE, aes |-> FALSE]

CreateCryptoKeys == [peer |-> TRUE, masterPub |-> TRUE, masterPriv |-> TRUE, aes |-> TRUE]

\* An app that has never been started: no keys, an empty database.
FreshApp ==
    [keys |-> NoKeys, syncPhrase |-> "", core |-> FALSE, rows |-> {},
     current_update_id |-> Unset, peer_list_hash |-> Unset, data_hash |-> Unset,
     op |-> "", was |-> ""]

\* A node table that is never filled in.
initializeNodePropertiesSkipped(a) == a

initializeNodeProperties(a) ==
    [a EXCEPT !.current_update_id = IF @ = Unset THEN Itoa(0) ELSE @,
              !.peer_list_hash = IF @ = Unset THEN EncodeToString(Zero32) ELSE @,
              !.data_hash = IF @ = Unset THEN EncodeToString(Zero32) ELSE @]

\* coreStartup: the node properties, the tree of the data table, its root.
coreStartup(a) ==
    LET a1 == initializeNodeProperties(a)
        merkleTree == newMerkleTree(Sorted(a.rows))
    IN  [a1 EXCEPT !.core = TRUE,
                   !.data_hash = EncodeToString(MerkleTree_GetRootHash(merkleTree))]

initializeCore(a) == IF ~a.keys.aes THEN a ELSE coreStartup(a)

GetAppState(a) ==
    IF a.keys = NoKeys THEN "fresh"
    ELSE IF a.syncPhrase # "" THEN "binding"
    ELSE IF ~a.keys.masterPub THEN "fresh"
    ELSE IF ~a.keys.aes THEN "locked"
    ELSE "unlocked"

IdleApp == app = FreshApp

\* The data entries of the metadata model, named by their hashes.
MetaHashes == 1..MaxMeta

\* A node with the rows and tree c whose peer holds the rows p.
MetadataState(c, p) ==
    [rows |-> c, tree |-> c, peer |-> p, allowed |-> {"M"}, pc |-> "idle",
     want |-> <<>>, sent |-> <<>>, err |-> "", had |-> c, op |-> ""]

IdleMetadata == md = MetadataState({}, {})

\* No range scan was made.
IdleRange ==
    rs = [rows |-> {}, bucketIdx |-> 0, numBuckets |-> 1, op |-> "",
          panic |-> FALSE, hashes |-> {}]

\* No two trees were compared.
IdleDiff ==
    df = [a |-> newMerkleTree(<<>>), b |-> newMerkleTree(<<>>), op |-> "",
          ab |-> <<>>, ba |-> <<>>, inline |-> <<>>]

\* The notify service with nothing received.
IdleNotify == nh = [sub |-> <<>>, calls |-> <<>>, mtx |-> FALSE, loop |-> "next"]

\* A tree nobody is working on.
IdleWriter(t) == [pc |-> "idle", op |-> "", hash |-> 0, idx |-> 1, pre |-> t, post |-> t, new |-> t]

IdleReader == [pc |-> "idle", nb |-> 0, n |-> 0, i |-> 1, live |-> TRUE, snap |-> <<>>, out |-> <<>>]

ConcTree(t) == [tree |-> t, w |-> IdleWriter(t), r |-> IdleReader, whole |-> {}, ops |-> 0]

IdleConcTree == tc = ConcTree(newMerkleTree(<<>>))

\* A master that has published nothing.
MasterLog(rows, tree, cur) ==
    [rows |-> rows, tree |-> tree, peers |-> {}, current_update_id |-> cur,
     data_hash |-> MerkleTree_GetRootHash(tree), peer_list_hash |-> Zero32,
     log |-> <<>>, op |-> ""]

IdleMasterLog == ml = MasterLog({}, newMerkleTree(<<>>), 0)

\* The node table without key rows, and an app that has read no keys.
NoRow == <<"absent", <<>>>>

EmptyKeyStore ==
    [node |-> [master_private_key |-> NoRow, peer_private_key |-> NoRow,
               aes_key |-> NoRow, master_public_key |-> NoRow],
     keys |-> <<>>, stored |-> <<>>, authorized |-> <<>>, op |-> ""]

IdleKeys == ks = EmptyKeyStore

\* An unlocked app over an empty data table; core: the app has a core.
EmptyVault(core) ==
    [core |-> core, rows |-> {}, nonce |-> 0, nextFolderID |-> loadNextFolderID({}),
     op |-> "", key |-> <<>>, folder |-> -1, published |-> FALSE, listed |-> {}]

IdleVault == ft = EmptyVault(FALSE)

IdleAux == IdleRange /\ IdleDiff /\ IdleNotify /\ IdleConcTree /\ IdleMasterLog /\ IdleKeys /\ IdleVault

\* The models of dl, mt, cs, stor, app and md at rest.
IdleOld ==
    /\ dl = IdleDownload
    /\ IdleTree /\ IdleStream /\ IdleStorage /\ IdleApp /\ IdleMetadata

IdleButDownload ==
    IdleTree /\ IdleStream /\ IdleStorage /\ IdleApp /\ IdleMetadata /\ IdleAux

IdleLocal == dl = IdleDownload /\ IdleButDownload

Init == IdleCore /\ IdleLocal

Update(id, plh, pplh, dh, pdh, nb, type, action, hash, peer) ==
    [id |-> id, plh |-> plh, pplh |-> pplh, dh |-> dh, pdh |-> pdh, nb |-> nb,
     type |-> type, action |-> action, hash |-> hash, peer |-> peer]

\* SignUpdate with the master private key.
SignUpdate(u) ==
    [id |-> u.id, plh |-> u.plh, pplh |-> u.pplh, dh |-> u.dh, pdh |-> u.pdh,
     nb |-> u.nb, type |-> u.type, action |-> u.action, hash |-> u.hash,
     peer |-> u.peer, sig |-> "master"]

\* PublishDataUpdate refuses a node without the master private key;
\* PublishPeerUpdate has no such test and reaches ed25519.Sign with a nil key.
PublishDataUpdateRefuses(s) == ~s.priv

PublishPeerUpdateRefuses(s) == FALSE

BindNewPeerRefuses(s) == ~s.priv

\* The publish calls a behaviour holds: overlapping calls get one more, for the
\* two calls that overlap once the replica is bound.
CallBudget(sequential) == IF sequential THEN MaxCalls ELSE MaxCalls + 1

\* One caller at a time (it is then always the first thread), or overlapping
\* calls (the second thread is the caller that arrives while the first runs).
CallsAllowed(t, sequential) ==
    IF sequential THEN t = "t1" /\ \A t2 \in Threads : pub[t2].pc = "idle"
    ELSE t = "t1" \/ pub["t1"].pc # "idle"

\* pre: the master's state when the call began (kept for the calls that do not overlap).
PreCall(sequential) == IF sequential THEN <<node["M"]>> ELSE <<>>

\* PublishDataUpdate on the master, up to the reads of the node properties.
PublishDataUpdateCall(t, action, h, sequential) ==
    /\ pub[t].pc = "idle"
    /\ CallsAllowed(t, sequential)
    /\ ~PublishDataUpdateRefuses(node["M"])
    /\ calls < CallBudget(sequential)
    /\ calls' = calls + 1
    /\ pub' = [pub EXCEPT ![t] =
                 [IdleFrame EXCEPT !.pc = "read", !.op = "DATA", !.action = action,
                                   !.hash = h,
                                   !.currentID = node["M"].cur,
                                   !.prevDH = node["M"].dataHash,
                                   !.prevPLH = node["M"].plHash,
                                   !.pre = PreCall(sequential)]]
    /\ last' = NoOp
    /\ UNCHANGED <<node, net, bind, localVars>>

\* The local application of the action, the new root and the signed update.
PublishDataUpdateApply(t) ==
    /\ pub[t].pc = "read"
    /\ LET fr == pub[t]
           s0 == node["M"]
           s1 == IF fr.action \in {"ADD", "MODIFY"} THEN insertData(s0, fr.hash)
                 ELSE IF fr.action = "DELETE" THEN deleteData(s0, fr.hash)
                 ELSE s0
           s2 == updateDataHash(s1)
           u == Update(fr.currentID + 1, fr.prevPLH, fr.prevPLH,
                       GetRootHash(s2.tree), fr.prevDH, s2.tree.nb,
                       "DATA", fr.action, fr.hash, "")
       IN  /\ node' = [node EXCEPT !["M"] = s2]
           /\ pub' = [pub EXCEPT ![t].pc = "signed", ![t].su = <<SignUpdate(u)>>]
    /\ last' = NoOp
    /\ UNCHANGED <<net, calls, bind, localVars>>

\* bindToMaster on the replica: the master key, the master and its peers.
bindToMaster(r, m) ==
    [r EXCEPT !.bound = TRUE, !.peers = @ \cup {"M"} \cup m.peers,
              !.allowed = {x \in m.peers : ValidPeerID(x)} \cup {"M"}]

PeerFrame(action, p, s, sequential) ==
    [IdleFrame EXCEPT
        !.pc = "signed", !.op = "PEER", !.action = action, !.peer = p,
        !.currentID = s.cur, !.prevDH = s.dataHash, !.prevPLH = s.plHash,
        !.pre = PreCall(sequential),
        !.su = <<SignUpdate(Update(s.cur + 1, ComputePeerListHash(s.peers), s.plHash,
                                   s.dataHash, s.dataHash, 0, "PEER", action, 0, p))>>]

\* BindNewPeer on the master: the handshake, AddPeer, then PublishPeerUpdate
\* up to the signed update.
BindNewPeerCall(t, p, sequential) ==
    /\ pub[t].pc = "idle"
    /\ CallsAllowed(t, sequential)
    /\ ~BindNewPeerRefuses(node["M"])
    /\ calls < CallBudget(sequential)
    /\ calls' = calls + 1
    /\ LET m0 == node["M"]
           m1 == [m0 EXCEPT !.peers = @ \cup {p}, !.allowed = @ \cup {p}]
       IN  /\ node' = [node EXCEPT
                         !["M"] = m1,
                         !["R"] = IF p = "R" THEN bindToMaster(@, m0) ELSE @]
           /\ pub' = [pub EXCEPT ![t] = PeerFrame("ADD", p, m1, sequential)]
    /\ last' = NoOp
    /\ UNCHANGED <<net, bind, localVars>>

\* InsertSignedUpdate into the log; a failed insert returns the error.
PublishInsert(t, ok) ==
    /\ pub[t].pc = "signed"
    /\ IF ok
       THEN /\ node' = [node EXCEPT !["M"] = InsertSignedUpdate(@, pub[t].su[1])]
            /\ pub' = [pub EXCEPT ![t].pc = "inserted"]
            /\ last' = NoOp
       ELSE /\ pub' = [pub EXCEPT ![t] = IdleFrame]
            /\ last' = Done("publish", "M", "err", {})
            /\ UNCHANGED node
    /\ UNCHANGED <<net, calls, bind, localVars>>

CommitPublished(s, su) ==
    IF su.type = "DATA"
    THEN [s EXCEPT !.cur = su.id, !.dataHash = su.dh, !.lastest = <<su>>]
    ELSE [s EXCEPT !.cur = su.id, !.plHash = su.plh]

\* The node properties, then the broadcast.
PublishCommit(t, notifyOk) ==
    /\ pub[t].pc = "inserted"
    /\ node' = [node EXCEPT !["M"] = CommitPublished(@, pub[t].su[1])]
    /\ net' = IF notifyOk THEN net \cup {pub[t].su[1]} ELSE net
    /\ pub' = [pub EXCEPT ![t] = IdleFrame]
    /\ last' = Done("publish", "M", IF notifyOk THEN "ok" ELSE "notifyerr", {})
    /\ UNCHANGED <<calls, bind, localVars>>

\* The publish entry points on a node without the master private key.
PublishWithoutKey(n, op) ==
    /\ ~node[n].priv
    /\ last' = Done(op, n,
                    CASE op = "DATA" -> IF PublishDataUpdateRefuses(node[n]) THEN "err" ELSE "panic"
                      [] op = "PEER" -> IF PublishPeerUpdateRefuses(node[n]) THEN "err" ELSE "panic"
                      [] OTHER -> IF BindNewPeerRefuses(node[n]) THEN "err" ELSE "panic",
                    {})
    /\ UNCHANGED <<node, net, pub, calls, bind, localVars>>

\* App.RemovePeer: the row leaves the master's table, nothing is published.
AppRemovePeer(p) ==
    /\ p \in node["M"].peers
    /\ node' = [node EXCEPT !["M"].peers = @ \ {p}]
    /\ last' = NoOp
    /\ UNCHANGED <<net, pub, calls, bind, localVars>>

\* What handleLatestUpdateRequest broadcasts: the node property
\* "lastest_update", nothing when the node has none.
LatestUpdateReply(s) == s.lastest

\* handleLatestUpdateRequest: the master broadcasts its "lastest_update" again.
HandleLatestUpdateRequest ==
    /\ LatestUpdateReply(node["M"]) # <<>>
    /\ net' = net \cup {LatestUpdateReply(node["M"])[1]}
    /\ last' = NoOp
    /\ UNCHANGED <<node, pub, calls, bind, localVars>>

\* An update whose bytes were not signed by the master key.
Forged(su) == [su EXCEPT !.sig = "forged", !.id = IF @ < MaxCalls THEN @ + 1 ELSE @]

\* handleUpdate on the bound replica, for a broadcast update or a forged one.
ProcessUpdate(su, f) ==
    /\ node["R"].bound
    /\ LET out == processUpdate(node["R"], su, node["M"], f)
       IN  /\ node' = [node EXCEPT !["R"] = out.st]
           /\ last' = Done("process", "R", out.res, out.streams)
    /\ UNCHANGED <<net, pub, calls, bind, localVars>>

\* The publish calls of the master: one caller at a time, or overlapping.
Calls(sequential) ==
    \/ \E t \in Threads, a \in DataActions, h \in PublishedHashes :
          PublishDataUpdateCall(t, a, h, sequential)
    \/ \E t \in Threads, p \in BoundPeers : BindNewPeerCall(t, p, sequential)

\* The rest of a publish call; inserts and notifies are the outcomes the log
\* insert and the broadcast may have.
PublishSteps(inserts, notifies) ==
    \/ \E t \in Threads : PublishDataUpdateApply(t)
    \/ \E t \in Threads, ok \in inserts : PublishInsert(t, ok)
    \/ \E t \in Threads, notifyOk \in notifies : PublishCommit(t, notifyOk)

Deliver(inputs) ==
    \/ \E su \in net, f \in inputs : ProcessUpdate(su, f)
    \/ \E su \in net : ProcessUpdate(Forged(su), AllStreamsWork)

\* The replica follows a master whose publish calls come one at a time.
Next ==
    \/ Calls(TRUE)
    \/ PublishSteps({TRUE}, BOOLEAN)
    \/ \E p \in BoundPeers : AppRemovePeer(p)
    \/ HandleLatestUpdateRequest
    \/ Deliver(NetInputs)

Spec == Init /\ [][Next]_vars

\* The publish entry points alone, on the master (where the log insert may
\* fail) and on the node without the master private key.
NextPub ==
    \/ Calls(TRUE)
    \/ PublishSteps(BOOLEAN, BOOLEAN)
    \/ \E p \in BoundPeers : AppRemovePeer(p)
    \/ \E op \in {"DATA", "PEER", "BIND"} : PublishWithoutKey("R", op)

SpecPub == Init /\ [][NextPub]_vars

\* Overlapping publish calls on the master (the UI runs each call in its own
\* goroutine and Core holds no lock), and the replica that follows them.
NextConc ==
    \/ Calls(FALSE)
    \/ PublishSteps({TRUE}, {TRUE})
    \/ Deliver({AllStreamsWork})

SpecConc == Init /\ [][NextConc]_vars

\* ------------------------------------------------------- catching up
\* A broadcast the replica was not there for: gossip delivers a message to
\* the peers subscribed while it is published, and keeps nothing for later.
MissBroadcast(su) ==
    /\ su \in net
    /\ net' = net \ {su}
    /\ last' = NoOp
    /\ UNCHANGED <<node, pub, calls, bind, localVars>>

\* The replica, connected to the master, receives what the master broadcasts
\* in reply to request_latest_update; every stream the replica is given works.
DeliverRebroadcast ==
    /\ LatestUpdateReply(node["M"]) # <<>>
    /\ LatestUpdateReply(node["M"])[1] \in net
    /\ ProcessUpdate(LatestUpdateReply(node["M"])[1], [AllStreamsWork EXCEPT !.from = "M"])

NextLive ==
    \/ Calls(TRUE)
    \/ PublishSteps({TRUE}, {TRUE})
    \/ \E su \in net : MissBroadcast(su)
    \/ HandleLatestUpdateRequest
    \/ DeliverRebroadcast
    \/ Deliver(NetInputs)

\* A publish call runs to its end; every node sends request_latest_update
\* when it starts and every 15 seconds, so the master's handler runs again
\* and again, and the connected replica receives each reply.
FairLive ==
    /\ WF_vars(PublishSteps({TRUE}, {TRUE}))
    /\ WF_vars(HandleLatestUpdateRequest)
    /\ SF_vars(DeliverRebroadcast)

SpecLive == Init /\ [][NextLive]_vars /\ FairLive

\* ------------------------------------------------ streams and the peer map
\* The peers that open streams or are asked for one: the master, the
\* replica, and P, a peer in no peer map.
PeerIDs == {"M", "R", "P"}

\* The protocols setupSyncHandlers registers through NewStreamHandler.
SyncProtocols ==
    {"peer-list", "tree-bucket-hashes", "data-bucket-hashes", "metadata", "file-data"}

\* NewStreamToPeer on node n: the peer-not-allowed error, or the stream.
NewStreamToPeer(n, peerID) ==
    /\ peerID # n
    /\ last' = DoneWith("open", n,
                        IF NewStreamToPeerRefuses(node[n], peerID)
                        THEN "peer not allowed" ELSE "opened",
                        {}, peerID)
    /\ UNCHANGED <<node, net, pub, calls, bind, localVars>>

\* A stream a remote peer opens on node n: the wrapper resets it, or the
\* handler of the protocol runs and replies.
HandleStream(n, remotePeer, protocolID) ==
    /\ remotePeer # n
    /\ last' = IF NewStreamHandlerResets(node[n], remotePeer)
               THEN DoneWith("inbound", n, "reset", {}, remotePeer)
               ELSE DoneWith("inbound", n, "handled", {protocolID}, remotePeer)
    /\ UNCHANGED <<node, net, pub, calls, bind, localVars>>

\* Binds, the peer updates they publish, remove_peer, the replica that
\* follows, and the streams opened in between.
NextP2P ==
    \/ \E t \in Threads, p \in BoundPeers : BindNewPeerCall(t, p, TRUE)
    \/ \E t \in Threads, ok \in BOOLEAN : PublishInsert(t, ok)
    \/ \E t \in Threads, notifyOk \in BOOLEAN : PublishCommit(t, notifyOk)
    \/ \E p \in BoundPeers : AppRemovePeer(p)
    \/ Deliver(NetInputs)
    \/ \E n \in Node, q \in PeerIDs : NewStreamToPeer(n, q)
    \/ \E n \in Node, q \in PeerIDs, proto \in SyncProtocols : HandleStream(n, q, proto)

SpecP2P == Init /\ [][NextP2P]_vars

\* ------------------------------------------------------ binding handshake
\* The phrase newMnemonic gave the replica, and the phrases a peer that does
\* not know it computes with.
SyncPhrase == "phrase"
Phrases == {"phrase", "guess"}

\* The 32 random bytes of a challenge and of a salt.
Challenges == {"c1", "c2", "c3"}
Salts == {"s1", "s2", "s3"}

\* scrypt.Key(phrase || challenge, salt), collision free.
scryptKey(syncPhrase, challenge, salt) == <<syncPhrase, challenge, salt>>

solveChallenge(syncPhrase, challenge, salt) ==
    [Result |-> scryptKey(syncPhrase, challenge, salt), Salt |-> salt]

verifyChallengeResponse(syncPhrase, challenge, response) ==
    scryptKey(syncPhrase, challenge, response.Salt) = response.Result

\* The master was given the phrase out of band; P was not.
KnowsPhrase(q) == q = "M"

\* The challenges a peer can send: any 32 bytes, the verifier's own too.
SentChallenges(q) == Challenges

\* The responses a peer can send: the master solves the challenge it was
\* sent; a peer without the phrase solves with another phrase, or sends back
\* the response it has read from the verifier.
SentResponses(q) ==
    IF KnowsPhrase(q)
    THEN {solveChallenge(SyncPhrase, bind.ourChallenge, s) : s \in Salts}
    ELSE {solveChallenge(ph, c, s) :
             ph \in Phrases \ {SyncPhrase}, c \in Challenges, s \in Salts}
         \cup {bind.ourResponse[i] : i \in DOMAIN bind.ourResponse}

\* The bind stream handler starts mutualVerification and writes its challenge.
BindStream(q, c) ==
    /\ bind.pc = "listening"
    /\ ~node["R"].bound
    /\ bind' = [IdleBind EXCEPT !.pc = "challenged", !.peer = q, !.ourChallenge = c]
    /\ last' = NoOp
    /\ UNCHANGED <<node, net, pub, calls, localVars>>

\* It reads the peer's challenge and writes its response.
ReadChallenge(ch, salt) ==
    /\ bind.pc = "challenged"
    /\ bind' = [bind EXCEPT !.pc = "responded", !.challenge = ch,
                             !.ourResponse = <<solveChallenge(SyncPhrase, ch, salt)>>]
    /\ last' = NoOp
    /\ UNCHANGED <<node, net, pub, calls, localVars>>

\* It reads the peer's response: the result of mutualVerification.
ReadResponse(resp) ==
    /\ bind.pc = "responded"
    /\ LET result == verifyChallengeResponse(SyncPhrase, bind.ourChallenge, resp)
       IN  /\ bind' = IF result
                      THEN [bind EXCEPT !.pc = "verified", !.result = TRUE]
                      ELSE IdleBind
           /\ last' = DoneWith("verify", "R", IF result THEN "true" ELSE "false",
                               {}, bind.peer)
    /\ UNCHANGED <<node, net, pub, calls, localVars>>

\* A read of the stream fails: mutualVerification returns the error.
BindStreamFails ==
    /\ bind.pc \in {"challenged", "responded"}
    /\ bind' = IdleBind
    /\ last' = DoneWith("verify", "R", "err", {}, bind.peer)
    /\ UNCHANGED <<node, net, pub, calls, localVars>>

\* After a true result the handler reads the ClientInfoMsg of the peer and
\* hands it to bindToMaster, which installs the key and the peer.
ReadClientInfo ==
    /\ bind.pc = "verified"
    /\ LET key == IF bind.peer = "M" THEN "master" ELSE "forged"
       IN  bind' = [bind EXCEPT !.pc = "bound",
                                !.clientInfo = <<[MasterPublicKey |-> key,
                                                  PeerID |-> bind.peer]>>]
    /\ node' = [node EXCEPT !["R"] =
                   [@ EXCEPT !.bound = TRUE, !.peers = @ \cup {bind.peer},
                             !.allowed = {bind.peer}]]
    /\ last' = DoneWith("bind", "R", "ok", {}, bind.peer)
    /\ UNCHANGED <<net, pub, calls, localVars>>

NextBind ==
    \/ \E q \in PeerIDs \ {"R"}, c \in Challenges : BindStream(q, c)
    \/ \E ch \in SentChallenges(bind.peer), salt \in Salts : ReadChallenge(ch, salt)
    \/ \E resp \in SentResponses(bind.peer) : ReadResponse(resp)
    \/ BindStreamFails
    \/ ReadClientInfo

SpecBind == Init /\ [][NextBind]_vars

\* ------------------------------------------------ sync from drawn states
\* The data tables a node can hold: one row, so one hash, per key.
DataSets == {S \in SUBSET Hash : \A x, y \in S : KeyOf(x) = KeyOf(y) => x = y}

\* The bucket counts a tree over n hashes can have: NewMerkleTree gives one
\* bucket up to HASHES_PER_BUCKET hashes and more above, and Delete keeps
\* several buckets while 4 * n >= HASHES_PER_BUCKET * buckets.
BucketCounts(n) ==
    {nb \in 1..MaxBuckets : nb = 1 \/ 4 * n >= HASHES_PER_BUCKET * nb}

\* The master's data: nothing, or all but a few of the hashes.
MasterData == {S \in DataSets : S = {} \/ Cardinality(S) >= HashSpace - 2}

\* The update the master published last over the data P in a tree of nb
\* buckets: the ADD of its highest hash (the DELETE of hash 0 when it holds
\* nothing), or a PEER update for the bound replica.
LastUpdate(P, nb, type) ==
    LET t == [nb |-> nb, hs |-> P]
        h == IF P = {} THEN 0 ELSE CHOOSE x \in P : \A y \in P : y <= x
        before == IF P = {} THEN [nb |-> 1, hs |-> {0}] ELSE [nb |-> nb, hs |-> P \ {h}]
    IN  IF type = "DATA"
        THEN SignUpdate(Update(MaxUpdateID, {"R"}, {"R"}, GetRootHash(t), GetRootHash(before),
                               nb, "DATA", IF P = {} THEN "DELETE" ELSE "ADD", h, ""))
        ELSE SignUpdate(Update(MaxUpdateID, {"R"}, {"R"}, GetRootHash(t), GetRootHash(t),
                               0, "PEER", "ADD", 0, "R"))

\* A node that holds the rows S in a tree of nb buckets; the log entries of
\* the updates before the last one are left out.
NodeWith(n, S, nb, id) ==
    [InitNode(n) EXCEPT !.bound = TRUE, !.peers = {"R"}, !.plHash = {"R"},
                        !.allowed = IF n = "M" THEN {"R"} ELSE {"M"},
                        !.rows = S, !.tree = [nb |-> nb, hs |-> S],
                        !.dataHash = GetRootHash([nb |-> nb, hs |-> S]), !.cur = id]

\* The master after its last update, and a bound replica one update behind
\* whose data may differ from the master's in any way.
InitSync ==
    \E P \in MasterData, L \in DataSets, type \in {"DATA", "PEER"} :
    \E nbM \in BucketCounts(Cardinality(P)), nbR \in BucketCounts(Cardinality(L)) :
        LET su == LastUpdate(P, nbM, type)
            m == NodeWith("M", P, nbM, MaxUpdateID)
        IN  /\ node = [n \in Node |->
                         IF n = "M"
                         THEN [m EXCEPT !.log[MaxUpdateID] = <<su>>,
                                        !.lastest = IF type = "DATA" THEN <<su>> ELSE <<>>]
                         ELSE NodeWith("R", L, nbR, MaxUpdateID - 1)]
            /\ net = {su}
            /\ pub = [t \in Threads |-> IdleFrame]
            /\ calls = MaxCalls
            /\ last = NoOp
            /\ bind = IdleBind
            /\ IdleLocal

NextSync == Deliver(NetInputs)

SpecSync == InitSync /\ [][NextSync]_vars

\* ------------------------------------------------------ blob download
GetDownloadProgress(s, hash) == IF hash \in s.rows THEN s.progress[hash] ELSE 0

\* A progress column that is never written.
SetDownloadProgressSkipped(s, hash, progress) == s

\* UPDATE data SET download_progress = ? WHERE value = ?
SetDownloadProgress(s, hash, progress) ==
    IF hash \in s.rows THEN [s EXCEPT !.progress[hash] = progress] ELSE s

AppendFileData(s, fileHash, data) == [s EXCEPT !.file[fileHash] = @ \o data]

\* A validation that accepts whatever the file holds.
ValidateOrRemoveFileAcceptsAll(s, fileHash) == [st |-> s, err |-> ""]

\* ValidateOrRemoveFile: the file is removed when its hash is not its name.
ValidateOrRemoveFile(s, fileHash) ==
    IF Blake3File(s.file[fileHash]) = fileHash
    THEN [st |-> s, err |-> ""]
    ELSE [st |-> [s EXCEPT !.file[fileHash] = <<>>], err |-> "hash"]

\* handleFileDataRequest on a peer that holds the complete blob: the units
\* it writes to the stream.
handleFileDataRequest(req) ==
    LET totalSize == BlobSize(req.hash)
        rest == totalSize - req.offset
        remaining == IF req.length > 0 /\ req.length < rest THEN req.length ELSE rest
    IN  IF remaining <= 0 THEN <<>>
        ELSE SubSeq(BlobData(req.hash), req.offset + 1, req.offset + remaining)

\* What the stream does to a reply: cut units get through (the last of them
\* damaged when corrupt), then the stream ends with end-of-file or an error.
Wires == [cut : 0..MaxBlob, end : {"eof", "err"}, corrupt : BOOLEAN]

GoodWire == [cut |-> MaxBlob, end |-> "eof", corrupt |-> FALSE]

DeadWire == [cut |-> 0, end |-> "err", corrupt |-> FALSE]

Received(sent, w) ==
    LET n == IF w.cut < Len(sent) THEN w.cut ELSE Len(sent)
        r == SubSeq(sent, 1, n)
    IN  IF w.corrupt /\ n > 0 THEN [r EXCEPT ![n] = <<"damaged", n>>] ELSE r

\* The units downloadFile appends: whole write buffers, and the rest on
\* end-of-file or when everything asked for has come; a read error returns
\* at once and what the buffer held is lost.
Flushed(got, length, w) ==
    IF Len(got) = length \/ w.end = "eof" THEN got
    ELSE SubSeq(got, 1, (Len(got) \div WRITE_BUFFER_SIZE) * WRITE_BUFFER_SIZE)

\* downloadFile(from, fileHash, fileSize): the state after, the error and
\* the file-data requests it sent.
downloadFile(s, from, fileHash, fileSize, w) ==
    LET offset == GetDownloadProgress(s, fileHash)
        req == [hash |-> fileHash, offset |-> offset, length |-> fileSize - offset]
    IN
    IF ~s.storage THEN [st |-> s, err |-> "", reqs |-> <<>>]
    ELSE IF offset = fileSize THEN [st |-> s, err |-> "", reqs |-> <<>>]
    ELSE IF NewStreamToPeerRefuses(s, from)
    THEN [st |-> s, err |-> "peer not allowed", reqs |-> <<>>]
    ELSE
    LET got == Received(handleFileDataRequest(req), w)
        written == Flushed(got, req.length, w)
        s1 == IF written = <<>> THEN s
              ELSE SetDownloadProgress(AppendFileData(s, fileHash, written),
                                       fileHash, offset + Len(written))
    IN
    IF Len(written) # req.length
    THEN [st |-> s1, err |-> IF w.end = "eof" THEN "incomplete" ELSE "read", reqs |-> <<req>>]
    ELSE
    LET v == ValidateOrRemoveFile(SetDownloadProgress(s1, fileHash, fileSize), fileHash)
    IN  IF v.err # ""
        THEN [st |-> SetDownloadProgress(v.st, fileHash, 0), err |-> v.err, reqs |-> <<req>>]
        ELSE [st |-> v.st, err |-> "", reqs |-> <<req>>]

\* A call of downloadFile as the handler made it: what it was given, the
\* progress it found, what it sent and returned, and the state it left.
DownloadCall(s, from, h, w, out) ==
    [hash |-> h, size |-> BlobSize(h), from |-> from, before |-> GetDownloadProgress(s, h),
     had |-> s.file[h], wire |-> w, reqs |-> out.reqs, err |-> out.err,
     progress |-> out.st.progress[h], file |-> out.st.file[h]]

\* The data update with id i adds the blob i.
BlobOf(i) == IF i = 1 THEN "b1" ELSE "b2"

\* insertData of the update's row, then downloadFile of its blob.
InsertAndDownload(s, from, h, w) ==
    LET s1 == [s EXCEPT !.rows = @ \cup {h}, !.progress[h] = 0]
        out == downloadFile(s1, from, h, BlobSize(h), w)
    IN  [st |-> [out.st EXCEPT !.done = Append(@, DownloadCall(s1, from, h, w, out))]]

\* The master publishes the data update that adds the next blob.
DLPublish ==
    /\ dl.published < Cardinality(Blobs)
    /\ dl' = [dl EXCEPT !.published = @ + 1, !.op = "publish", !.done = <<>>]
    /\ UNCHANGED <<coreVars, auxVars, mt, cs, stor, app, md>>

\* processUpdate of the data update i received from the peer from: dropped
\* when already processed, applied by fast-forward when it is the next one,
\* by the full sync (which asks from for the rows it lacks) otherwise.
processDataUpdate(d, i, from, w1, w2) ==
    LET s == [d EXCEPT !.done = <<>>]
    IN  IF AlreadyProcessed([id |-> i], d.cur) THEN [s EXCEPT !.op = "drop"]
        ELSE IF i = d.cur + 1
        THEN [InsertAndDownload(s, from, BlobOf(i), w1).st
                EXCEPT !.cur = i, !.op = "fast-forward"]
        ELSE IF NewStreamToPeerRefuses(s, from) THEN [s EXCEPT !.op = "err"]
        ELSE LET a == InsertAndDownload(s, from, BlobOf(1), w1).st
                 b == InsertAndDownload(a, from, BlobOf(2), w2).st
             IN  [b EXCEPT !.cur = i, !.op = "full-sync"]

\* handleUpdate for the broadcast of the update i.
DLHandleUpdate(i, from, w1, w2) ==
    /\ i \in 1..dl.published
    /\ dl' = [processDataUpdate(dl, i, from, w1, w2) EXCEPT !.via = "broadcast"]
    /\ UNCHANGED <<coreVars, auxVars, mt, cs, stor, app, md>>

\* The periodic RequestLatestUpdate: the master broadcasts its latest update
\* again, and the broadcast reaches the node's gossip handler.
DLTick ==
    /\ dl.published >= 1
    /\ dl.inbox = <<>>
    /\ dl' = [dl EXCEPT !.inbox = <<dl.published>>]
    /\ UNCHANGED <<coreVars, auxVars, mt, cs, stor, app, md>>

\* handleUpdate for that broadcast.
DLHandleReply(from, w1, w2) ==
    /\ dl.inbox # <<>>
    /\ dl' = [processDataUpdate(dl, dl.inbox[1], from, w1, w2)
                EXCEPT !.inbox = <<>>,
                       !.via = IF w1 = GoodWire /\ w2 = GoodWire THEN "reply" ELSE "cut reply"]
    /\ UNCHANGED <<coreVars, auxVars, mt, cs, stor, app, md>>

NextDL ==
    \/ DLTick
    \/ DLPublish
    \/ \E i \in 1..Cardinality(Blobs), from \in {"M", "P"} :
       \E w1 \in Wires, w2 \in {GoodWire, DeadWire} : DLHandleUpdate(i, from, w1, w2)
    \/ \E from \in {"M", "P"} :
       \E w1 \in Wires, w2 \in {GoodWire, DeadWire} : DLHandleReply(from, w1, w2)

SpecDL == Init /\ [][NextDL]_vars

\* Every node sends request_latest_update when it starts and every 15
\* seconds, and the master answers each time.
SpecDLLive == Init /\ [][NextDL]_vars /\ WF_vars(DLTick)

\* The node keeps handling the master's replies, over streams that work.
\* The states a node is in after the full sync of two published blobs, its
\* downloads cut or not.
AfterFullSync ==
    {processDataUpdate([IdleDownload EXCEPT !.published = 2], 2, "P", w1, w2) :
        w1 \in Wires, w2 \in {GoodWire, DeadWire}}

InitResume == IdleCore /\ IdleButDownload /\ dl \in AfterFullSync

\* downloadFile for a row the node holds.
DownloadAgain(from, h, w) ==
    /\ h \in dl.rows
    /\ LET out == downloadFile(dl, from, h, BlobSize(h), w)
       IN  dl' = [out.st EXCEPT !.done = <<DownloadCall(dl, from, h, w, out)>>,
                                !.op = "download", !.via = ""]
    /\ UNCHANGED <<coreVars, auxVars, mt, cs, stor, app, md>>

NextResume == \E from \in {"M", "P"}, h \in Blobs, w \in Wires : DownloadAgain(from, h, w)

SpecResume == InitResume /\ [][NextResume]_vars

RepliesKeepComing == []<>(dl.via = "reply" /\ dl.inbox = <<>>)

\* ------------------------------------------------------ metadata request
\* GetDataByHashes: the entries found, in the order asked.
GetDataByHashes(rows, hashes) == SelectSeq(hashes, LAMBDA h : h \in rows)

RECURSIVE handleMetadataRequest(_, _)
\* handleMetadataRequest on a peer with the given rows: the entries it
\* writes before it closes the stream, batch by batch.
handleMetadataRequest(rows, hashes) ==
    IF hashes = <<>> THEN <<>>
    ELSE LET n == IF Len(hashes) < METADATA_BATCH THEN Len(hashes) ELSE METADATA_BATCH
             batch == SubSeq(hashes, 1, n)
             entries == GetDataByHashes(rows, batch)
         IN  IF Len(entries) # Len(batch) THEN <<>>
             ELSE IF n < METADATA_BATCH THEN entries
             ELSE entries \o handleMetadataRequest(rows, SubSeq(hashes, n + 1, Len(hashes)))

\* RequestMetadata(from, hashes): the entries decoded until the stream
\* ends, and the error.
RequestMetadata(s, from, hashes) ==
    IF hashes = <<>> THEN [entries |-> <<>>, err |-> ""]
    ELSE IF NewStreamToPeerRefuses(s, from) THEN [entries |-> <<>>, err |-> "peer not allowed"]
    ELSE [entries |-> handleMetadataRequest(s.peer, hashes), err |-> ""]

InitMeta ==
    /\ IdleCore /\ IdleAux /\ dl = IdleDownload
    /\ IdleTree /\ IdleStream /\ IdleStorage /\ IdleApp
    /\ md \in {MetadataState(c, MetaHashes) : c \in SUBSET MetaHashes}

\* syncDataFull up to its metadata request: the peer's hashes the node lacks.
MetaDiff ==
    /\ md.pc = "idle"
    /\ md.peer \ md.rows # {}
    /\ md' = [md EXCEPT !.pc = "asked", !.want = Sorted(md.peer \ md.rows),
                         !.sent = <<>>, !.err = "", !.had = md.rows, !.op = "diff"]
    /\ UNCHANGED <<coreVars, auxVars, dl, mt, cs, stor, app>>

\* The peer applies a DELETE update of the master.
MetaPeerDelete(h) ==
    /\ h \in md.peer
    /\ md' = [md EXCEPT !.peer = @ \ {h}, !.op = "peer delete"]
    /\ UNCHANGED <<coreVars, auxVars, dl, mt, cs, stor, app>>

\* Phase 4 of syncDataFull: RequestMetadata, then the insert loop.
MetaRequest(from) ==
    /\ md.pc = "asked"
    /\ LET out == RequestMetadata(md, from, md.want)
           got == {out.entries[i] : i \in 1..Len(out.entries)}
       IN  md' = [md EXCEPT !.pc = "idle", !.op = "request", !.had = md.rows,
                            !.sent = out.entries, !.err = out.err,
                            !.rows = IF out.err = "" THEN @ \cup got ELSE @,
                            !.tree = IF out.err = "" THEN @ \cup got ELSE @]
    /\ UNCHANGED <<coreVars, auxVars, dl, mt, cs, stor, app>>

NextMeta ==
    \/ MetaDiff
    \/ \E h \in MetaHashes : MetaPeerDelete(h)
    \/ \E from \in {"M", "P"} : MetaRequest(from)

SpecMeta == InitMeta /\ [][NextMeta]_vars

\* ------------------------------------------------ tree operations
RECURSIVE Perms(_)
\* The lists that hold each hash of S once.
Perms(S) ==
    IF S = {} THEN {<<>>}
    ELSE UNION {{<<x>> \o q : q \in Perms(S \ {x})} : x \in S}

\* Hashes spread over the hash space.
SomeHashes == {0, 5, 11, 12, 17, 23}

\* The lists a tree is first built from.
NewLists == UNION {Perms(S) : S \in {T \in SUBSET SomeHashes : Cardinality(T) <= MaxNewHashes}}

InitTree ==
    /\ IdleCore /\ IdleAux /\ dl = IdleDownload
    /\ IdleStream /\ IdleStorage /\ IdleApp /\ IdleMetadata
    /\ mt \in {TreeState(newMerkleTreeWithBuckets(l, b), "new", 0, FALSE, FALSE) :
                  l \in NewLists, b \in 1..MaxNewBuckets}

MtInsert(h) ==
    /\ LET out == MerkleTree_Insert(mt.tree, h)
       IN  mt' = TreeState(out.tree, "insert", h, out.rebuilt, h \in TreeHashes(mt.tree))
    /\ UNCHANGED <<coreVars, auxVars, dl, cs, stor, app, md>>

MtDelete(h) ==
    /\ LET out == MerkleTree_Delete(mt.tree, h)
       IN  mt' = TreeState(out.tree, "delete", h, out.rebuilt, h \in TreeHashes(mt.tree))
    /\ UNCHANGED <<coreVars, auxVars, dl, cs, stor, app, md>>

NextTree ==
    \/ \E h \in SomeHashes : MtInsert(h)
    \/ \E h \in SomeHashes : MtDelete(h)

SpecTree == InitTree /\ [][NextTree]_vars

\* The hashes 0..n-1 in ascending order.
FirstHashes(n) == [i \in 1..n |-> i - 1]

InitTreeSize ==
    /\ IdleCore /\ IdleAux /\ dl = IdleDownload
    /\ IdleStream /\ IdleStorage /\ IdleApp /\ IdleMetadata
    /\ mt \in {TreeState(newMerkleTree(FirstHashes(n)), "new", 0, FALSE, FALSE) :
                  n \in 0..TreeSpace}

\* The least and the greatest hash held and their neighbours.
NextToHeld ==
    LET H == TreeHashes(mt.tree)
        lo == CHOOSE x \in H : \A y \in H : x <= y
        hi == CHOOSE x \in H : \A y \in H : x >= y
    IN  IF H = {} THEN {0}
        ELSE {lo - 1, lo, hi, hi + 1} \cap (0..(TreeSpace - 1))

NextTreeSize ==
    \/ \E h \in NextToHeld : MtInsert(h)
    \/ \E h \in NextToHeld : MtDelete(h)

SpecTreeSize == InitTreeSize /\ [][NextTreeSize]_vars

\* ------------------------------------------------------ app operations
AppHashes == {0, 12, 23}

Did(a, op) == [a EXCEPT !.op = op, !.was = GetAppState(app)]

CreateNewVault ==
    /\ app' = Did(initializeCore([app EXCEPT !.keys = CreateCryptoKeys]), "create_vault")
    /\ UNCHANGED <<coreVars, auxVars, dl, mt, cs, stor, md>>

StartReplicaBinding ==
    /\ app.syncPhrase = ""
    /\ app' = Did([initializeNodeProperties(
                      [app EXCEPT !.keys = IF @ = NoKeys THEN CreatePeerOnlyKeys ELSE @])
                   EXCEPT !.core = TRUE, !.syncPhrase = "four words"], "start_binding")
    /\ UNCHANGED <<coreVars, auxVars, dl, mt, cs, stor, md>>

CancelBinding ==
    /\ app' = Did([app EXCEPT !.syncPhrase = ""], "cancel_binding")
    /\ UNCHANGED <<coreVars, auxVars, dl, mt, cs, stor, md>>

\* The callback of StartBinding: the master's public key is stored.
BindingComplete ==
    /\ app.syncPhrase # ""
    /\ app' = Did([app EXCEPT !.keys.masterPub = TRUE, !.syncPhrase = ""], "binding_complete")
    /\ UNCHANGED <<coreVars, auxVars, dl, mt, cs, stor, md>>

\* UnlockWithMnemonic with the mnemonic of the vault.
UnlockWithMnemonic ==
    /\ app' = Did(initializeCore([app EXCEPT !.keys = CreateCryptoKeys]), "unlock")
    /\ UNCHANGED <<coreVars, auxVars, dl, mt, cs, stor, md>>

\* The master adds or deletes an entry and publishes the update.
AppPublish(action, h) ==
    /\ GetAppState(app) = "unlocked" /\ app.core /\ app.keys.masterPriv
    /\ Atoi(app.current_update_id) < MaxAppUpdates
    /\ IF action = "ADD" THEN h \notin app.rows ELSE h \in app.rows
    /\ LET rows == IF action = "ADD" THEN app.rows \cup {h} ELSE app.rows \ {h}
       IN  app' = Did([coreStartup([app EXCEPT !.rows = rows])
                        EXCEPT !.current_update_id = Itoa(Atoi(app.current_update_id) + 1)],
                      "publish")
    /\ UNCHANGED <<coreVars, auxVars, dl, mt, cs, stor, md>>

\* database.GetKeys over the keys that were stored: nil unless the master
\* private key, the peer private key and the content key are all there.
GetKeysOf(stored) ==
    IF stored.masterPriv /\ stored.peer /\ stored.aes THEN CreateCryptoKeys ELSE NoKeys

\* The app is started again: startup reads the keys from the database.
AppRestart ==
    /\ app' = Did(initializeCore([app EXCEPT !.keys = GetKeysOf(@), !.syncPhrase = "",
                                              !.core = FALSE]), "startup")
    /\ UNCHANGED <<coreVars, auxVars, dl, mt, cs, stor, md>>

NextApp ==
    \/ CreateNewVault
    \/ StartReplicaBinding
    \/ CancelBinding
    \/ BindingComplete
    \/ UnlockWithMnemonic
    \/ \E action \in {"ADD", "DELETE"}, h \in AppHashes : AppPublish(action, h)
    \/ AppRestart

InitApp ==
    /\ IdleCore /\ IdleAux /\ dl = IdleDownload
    /\ IdleTree /\ IdleStream /\ IdleStorage /\ IdleMetadata
    /\ app = FreshApp

SpecApp == InitApp /\ [][NextApp]_vars

\* ------------------------------------------------- stream round trip
\* EncryptStream of x under key from a reader that splits x as reads, then
\* DecryptStream of the result under the same key.
RoundTrip(x, key, reads) ==
    /\ LET c == EncryptStream(x, key, reads)
           d == DecryptStream(c, key)
       IN  cs' = [op |-> "round trip", x |-> x, key |-> key, reads |-> reads, c |-> c,
                  out |-> d.out, err |-> d.err]
    /\ UNCHANGED <<coreVars, auxVars, dl, mt, stor, app, md>>

NextStream ==
    \E x \in Plaintexts, key \in StreamKeys :
        \E reads \in ReadSplits(Len(x)) : RoundTrip(x, key, reads)

InitStream ==
    /\ IdleCore /\ IdleAux /\ dl = IdleDownload
    /\ IdleTree /\ IdleStream /\ IdleStorage /\ IdleApp /\ IdleMetadata

SpecStream == InitStream /\ [][NextStream]_vars

\* ------------------------------------------------- folder operations
\* CreateFolderWithEntry; failed: PutDataWithTag returns an error.
CreateFolderWithEntry(failed) ==
    /\ stor.nextFolderID < MaxFolderID
    /\ stor' = [stor EXCEPT !.nextFolderID = @ + 1,
                            !.folders = IF failed THEN @ ELSE @ \cup {stor.nextFolderID},
                            !.op = "create_folder",
                            !.got = IF failed THEN 0 ELSE stor.nextFolderID,
                            !.err = IF failed THEN "put" ELSE "",
                            !.had = stor.folders,
                            !.after = IF stor.op = "create_folder" /\ stor.err # ""
                                      THEN "failed create" ELSE stor.op]
    /\ UNCHANGED <<coreVars, auxVars, dl, mt, cs, app, md>>

DeleteFolderWithEntry(folderID) ==
    /\ stor' = [stor EXCEPT !.folders = @ \ {folderID},
                            !.op = "delete_folder", !.got = -1,
                            !.err = IF folderID \in stor.folders THEN "" ELSE "not found",
                            !.had = stor.folders, !.after = stor.op]
    /\ UNCHANGED <<coreVars, auxVars, dl, mt, cs, app, md>>

ReloadNextFolderID ==
    /\ stor' = [stor EXCEPT !.nextFolderID = loadNextFolderID(stor.folders),
                            !.op = "reload", !.got = -1, !.err = "",
                            !.had = stor.folders, !.after = stor.op]
    /\ UNCHANGED <<coreVars, auxVars, dl, mt, cs, app, md>>

\* processUpdate of an ADD of a folder made on another device: the row goes
\* into the data table.  The counter that processUpdate reloads is that of
\* the Storage of the core, not that of the Storage the app creates folders
\* with.
ProcessUpdateFolder(folderID) ==
    /\ folderID \notin stor.folders
    /\ stor' = [stor EXCEPT !.folders = @ \cup {folderID},
                            !.op = "process_update", !.got = -1, !.err = "",
                            !.had = stor.folders, !.after = stor.op]
    /\ UNCHANGED <<coreVars, auxVars, dl, mt, cs, app, md>>

NextStorage ==
    \/ \E failed \in BOOLEAN : CreateFolderWithEntry(failed)
    \/ \E folderID \in 0..MaxFolderID : DeleteFolderWithEntry(folderID)
    \/ ReloadNextFolderID
    \/ \E folderID \in 0..MaxFolderID : ProcessUpdateFolder(folderID)

InitStorage ==
    /\ IdleCore /\ IdleAux /\ dl = IdleDownload
    /\ IdleTree /\ IdleStream /\ IdleStorage /\ IdleApp /\ IdleMetadata

SpecStorage == InitStorage /\ [][NextStorage]_vars

\* ------------------------------------------------- bucket range scan
\* computeBucketRange: the bounds of the scan of one bucket.  A bound is
\* copied into a 32 byte slice at 32 - len(bytes): the bytes of 2^256
\* (TreeSpace here) are 33, and that slice expression panics.
computeBucketRange(bucketIdx, numBuckets) ==
    IF numBuckets <= 1
    THEN [panic |-> FALSE, start |-> 0, end |-> TreeSpace - 1]
    ELSE LET maxHash == TreeSpace
             bucketSize == maxHash \div numBuckets
             startInt == bucketIdx * bucketSize
             endInt == IF bucketIdx = numBuckets - 1
                       THEN maxHash ELSE (bucketIdx + 1) * bucketSize
         IN  IF startInt < TreeSpace /\ endInt < TreeSpace
             THEN [panic |-> FALSE, start |-> startInt, end |-> endInt]
             ELSE [panic |-> TRUE, start |-> 0, end |-> 0]

\* EndershareDB.GetBucketHashes: SELECT hash FROM data WHERE hash >= start
\* AND hash < end.
ScanBucketHashes(rows, bucketIdx, numBuckets) ==
    LET r == computeBucketRange(bucketIdx, numBuckets)
    IN  [panic |-> r.panic,
         hashes |-> IF r.panic THEN {}
                    ELSE {h \in rows : h >= r.start /\ h < r.end}]

\* Stored hashes: the least, the greatest, and the ends of the buckets.
RangeHashes == {0, 7, 8, 12, 16, TreeSpace - 1}

InitRange ==
    /\ IdleCore /\ IdleOld /\ IdleDiff /\ IdleNotify /\ IdleConcTree /\ IdleMasterLog /\ IdleKeys /\ IdleVault
    /\ rs \in {[rows |-> R, bucketIdx |-> 0, numBuckets |-> 1, op |-> "",
                panic |-> FALSE, hashes |-> {}] : R \in SUBSET RangeHashes}

RangeScan(bucketIdx, numBuckets) ==
    /\ LET out == ScanBucketHashes(rs.rows, bucketIdx, numBuckets)
       IN  rs' = [rs EXCEPT !.bucketIdx = bucketIdx, !.numBuckets = numBuckets,
                            !.op = "scan", !.panic = out.panic,
                            !.hashes = out.hashes]
    /\ UNCHANGED <<coreVars, oldVars, df, nh, tc, ml, ks, ft>>

NextRange ==
    \E numBuckets \in 1..MaxNewBuckets, bucketIdx \in 0..MaxNewBuckets - 1 :
        bucketIdx < numBuckets /\ RangeScan(bucketIdx, numBuckets)

SpecRange == InitRange /\ [][NextRange]_vars

\* ------------------------------------------------- bucket diff
\* The indices 0 .. n-1 in order.
Indices(n) == [i \in 1..n |-> i - 1]

\* The mutation of DiffBuckets: trees of different bucket counts compared
\* over the buckets both have.
DiffBucketsOverShared(t, other) ==
    LET myBuckets == MerkleTree_GetBucketHashes(t)
        otherBuckets == MerkleTree_GetBucketHashes(other)
        minLen == IF Len(otherBuckets) < Len(myBuckets)
                  THEN Len(otherBuckets) ELSE Len(myBuckets)
    IN  SelectSeq(Indices(minLen), LAMBDA i : myBuckets[i + 1] # otherBuckets[i + 1])

\* MerkleTree.DiffBuckets (other is a tree, never nil, in every call made
\* here).
DiffBuckets(t, other) ==
    LET myBuckets == MerkleTree_GetBucketHashes(t)
        otherBuckets == MerkleTree_GetBucketHashes(other)
        maxLen == IF Len(otherBuckets) > Len(myBuckets)
                  THEN Len(otherBuckets) ELSE Len(myBuckets)
    IN  IF Len(myBuckets) # Len(otherBuckets)
        THEN Indices(maxLen)
        ELSE SelectSeq(Indices(Len(myBuckets)),
                       LAMBDA i : myBuckets[i + 1] # otherBuckets[i + 1])

\* Phase 2 of syncDataFull: the local buckets the peer's list lacks or
\* has with another hash.
diffBucketIndices(localTreeBuckets, peerTreeBuckets) ==
    SelectSeq(Indices(Len(localTreeBuckets)),
              LAMBDA i : \/ i >= Len(peerTreeBuckets)
                         \/ localTreeBuckets[i + 1] # peerTreeBuckets[i + 1])

\* The hashes the compared trees hold.
DiffHashes == {0, 11, 12, TreeSpace - 1}

DiffTrees ==
    {newMerkleTreeWithBuckets(Sorted(S), b) :
        S \in {T \in SUBSET DiffHashes : Cardinality(T) <= MaxNewHashes},
        b \in 1..MaxNewBuckets}

InitDiff ==
    /\ IdleCore /\ IdleOld /\ IdleRange /\ IdleNotify /\ IdleConcTree /\ IdleMasterLog /\ IdleKeys /\ IdleVault
    /\ df \in {[a |-> x, b |-> y, op |-> "", ab |-> <<>>, ba |-> <<>>,
                inline |-> <<>>] : x \in DiffTrees, y \in DiffTrees}

\* a.DiffBuckets(b), b.DiffBuckets(a), and the loop of syncDataFull with a
\* as the local tree.
DiffBoth ==
    /\ df.op = ""
    /\ df' = [df EXCEPT !.op = "diff",
                        !.ab = DiffBuckets(df.a, df.b),
                        !.ba = DiffBuckets(df.b, df.a),
                        !.inline = diffBucketIndices(MerkleTree_GetBucketHashes(df.a),
                                                     MerkleTree_GetBucketHashes(df.b))]
    /\ UNCHANGED <<coreVars, oldVars, rs, nh, tc, ml, ks, ft>>

NextDiff == DiffBoth

SpecDiff == InitDiff /\ [][NextDiff]_vars

\* ------------------------------------------------- notify service
\* nh: the gossip subscription of one node.  sub: the messages gossip has
\* delivered and the loop has not taken; calls: the calls of the handler that
\* have not returned, each at lock, switch, processUpdate, latest or unlock;
\* mtx: the handler's mutex; loop: the goroutine of StartNotifyService, at
\* sub.Next or inside its call of the handler.
NotifyMessages == [type : {"update", "request_latest_update", "other"}, from : {"M", "P"}]

\* A handler started in a goroutine of its own and without the mutex.
StartNotificationDetached(h, msg) ==
    [h EXCEPT !.sub = Tail(@), !.calls = Append(@, [msg |-> msg, pc |-> "switch"])]

\* The loop's call notification(msg.Message.Data, msg.ReceivedFrom): the
\* loop waits for it to return.
StartNotification(h, msg) ==
    [h EXCEPT !.sub = Tail(@), !.calls = Append(@, [msg |-> msg, pc |-> "lock"]),
              !.loop = "call"]

\* Gossip delivers a message of a peer to the subscription.
GossipDelivers(msg) ==
    /\ Len(nh.sub) < MaxInbox
    /\ nh' = [nh EXCEPT !.sub = Append(@, msg)]
    /\ UNCHANGED <<coreVars, oldVars, rs, df, tc, ml, ks, ft>>

\* sub.Next returns and the loop calls the handler.
SubNext ==
    /\ nh.loop = "next"
    /\ nh.sub # <<>>
    /\ nh' = StartNotification(nh, Head(nh.sub))
    /\ UNCHANGED <<coreVars, oldVars, rs, df, tc, ml, ks, ft>>

\* mtx.Lock()
HandlerLock(i) ==
    /\ nh.calls[i].pc = "lock"
    /\ ~nh.mtx
    /\ nh' = [nh EXCEPT !.mtx = TRUE, !.calls[i].pc = "switch"]
    /\ UNCHANGED <<coreVars, oldVars, rs, df, tc, ml, ks, ft>>

\* The switch on the message type: handleUpdate enters processUpdate,
\* handleLatestUpdateRequest publishes, anything else returns.
HandlerSwitch(i) ==
    /\ nh.calls[i].pc = "switch"
    /\ nh' = [nh EXCEPT !.calls[i].pc =
                 CASE nh.calls[i].msg.type = "update" -> "processUpdate"
                   [] nh.calls[i].msg.type = "request_latest_update" -> "latest"
                   [] OTHER -> "unlock"]
    /\ UNCHANGED <<coreVars, oldVars, rs, df, tc, ml, ks, ft>>

\* processUpdate or handleLatestUpdateRequest returns.
HandlerReturn(i) ==
    /\ nh.calls[i].pc \in {"processUpdate", "latest"}
    /\ nh' = [nh EXCEPT !.calls[i].pc = "unlock"]
    /\ UNCHANGED <<coreVars, oldVars, rs, df, tc, ml, ks, ft>>

\* The deferred mtx.Unlock(); the handler returns to the loop.
HandlerUnlock(i) ==
    /\ nh.calls[i].pc = "unlock"
    /\ nh' = [nh EXCEPT !.mtx = FALSE, !.loop = "next",
                        !.calls = SubSeq(@, 1, i - 1) \o SubSeq(@, i + 1, Len(@))]
    /\ UNCHANGED <<coreVars, oldVars, rs, df, tc, ml, ks, ft>>

NextNotify ==
    \/ \E msg \in NotifyMessages : GossipDelivers(msg)
    \/ SubNext
    \/ \E i \in 1..Len(nh.calls) : HandlerLock(i)
    \/ \E i \in 1..Len(nh.calls) : HandlerSwitch(i)
    \/ \E i \in 1..Len(nh.calls) : HandlerReturn(i)
    \/ \E i \in 1..Len(nh.calls) : HandlerUnlock(i)

InitNotify ==
    /\ IdleCore /\ IdleOld /\ IdleRange /\ IdleDiff /\ IdleConcTree /\ IdleMasterLog /\ IdleKeys /\ IdleVault
    /\ IdleNotify

SpecNotify == InitNotify /\ [][NextNotify]_vars

\* ------------------------------------------------- the tree, shared
\* tc: the tree of a node, the goroutine inside Insert or Delete (w: a
\* publish or a sync), and a stream handler inside
\* handleTreeBucketHashesRequest (r).  Neither takes a lock, so their
\* statements interleave.  whole: what the tree held between whole
\* operations since the handler began.
Snapshot(t) == [nb |-> t.NumBuckets, hashes |-> MerkleTree_GetBucketHashes(t)]

\* The trees a node holds at rest: one bucket for few hashes, and two
\* buckets for the five hashes or more a tree of two buckets keeps.
SharedTrees ==
    {newMerkleTreeWithBuckets(Sorted(S), 2) :
        S \in {T \in SUBSET SomeHashes : Cardinality(T) >= 5}}
    \cup {newMerkleTree(Sorted(S)) :
        S \in {T \in SUBSET SomeHashes : Cardinality(T) <= 1}}

InitShared ==
    /\ IdleCore /\ IdleOld /\ IdleRange /\ IdleDiff /\ IdleNotify /\ IdleMasterLog /\ IdleKeys /\ IdleVault
    /\ tc \in {ConcTree(t) : t \in SharedTrees}

\* A whole operation ended: the handler, if it is reading, has one more
\* state of the tree it may report.
Returned(c) ==
    [c EXCEPT !.w = IdleWriter(c.tree),
              !.whole = IF c.r.pc \in {"range", "hashes"}
                        THEN @ \cup {Snapshot(c.tree)} ELSE @]

\* Insert(hash) or Delete(hash) is called.
TreeCall(op, hash) ==
    /\ tc.w.pc = "idle"
    /\ tc.ops < MaxTreeOps
    /\ tc' = [tc EXCEPT
                !.ops = @ + 1,
                !.w = [pc |-> "modify", op |-> op, hash |-> hash,
                       idx |-> getBucketIndexIn(TreeSpace, hash, tc.tree.NumBuckets) + 1,
                       pre |-> tc.tree,
                       post |-> IF op = "insert" THEN MerkleTree_Insert(tc.tree, hash).tree
                                ELSE MerkleTree_Delete(tc.tree, hash).tree,
                       new |-> tc.tree]]
    /\ UNCHANGED <<coreVars, oldVars, rs, df, nh, ml, ks, ft>>

\* The change of the bucket's list and of totalHashes, and the test for a
\* rebuild.
TreeModify ==
    /\ tc.w.pc = "modify"
    /\ LET t == tc.tree
           idx == tc.w.idx
           hash == tc.w.hash
           hs == t.Buckets[idx].Hashes
           pos == InsertPos(hs, hash)
           found == \E i \in 1..Len(hs) : hs[i] = hash
           inserted == [t EXCEPT !.Buckets[idx].Hashes =
                                     SubSeq(hs, 1, pos) \o <<hash>> \o SubSeq(hs, pos + 1, Len(hs)),
                                 !.totalHashes = @ + 1]
           deleted == IF found
                      THEN [t EXCEPT !.Buckets[idx].Hashes = SelectSeq(hs, LAMBDA x : x # hash),
                                     !.totalHashes = @ - 1]
                      ELSE t
       IN  IF tc.w.op = "insert"
           THEN IF InsertFindsDuplicate(hs, hash) THEN tc' = Returned(tc)
                ELSE tc' = [tc EXCEPT !.tree = inserted,
                                      !.w.pc = IF inserted.totalHashes >
                                                     2 * HASHES_PER_BUCKET * t.NumBuckets
                                               THEN "rebuild" ELSE "invalidate"]
           ELSE tc' = [tc EXCEPT !.tree = deleted,
                                 !.w.pc = IF /\ deleted.totalHashes > 0
                                             /\ 4 * deleted.totalHashes <
                                                    HASHES_PER_BUCKET * t.NumBuckets
                                             /\ t.NumBuckets > 1
                                          THEN "rebuild" ELSE "invalidate"]
    /\ UNCHANGED <<coreVars, oldVars, rs, df, nh, ml, ks, ft>>

\* mt.Buckets[bucketIdx].Invalidate()
TreeInvalidate ==
    /\ tc.w.pc = "invalidate"
    /\ tc' = [tc EXCEPT !.tree.Buckets[tc.w.idx] = Bucket_Invalidate(@), !.w.pc = "root"]
    /\ UNCHANGED <<coreVars, oldVars, rs, df, nh, ml, ks, ft>>

\* mt.Root = buildTree(mt.Buckets), and the operation returns.
TreeRoot ==
    /\ tc.w.pc = "root"
    /\ tc' = Returned([tc EXCEPT !.tree.Root = buildTree(tc.tree.Buckets),
                                 !.tree.Buckets = CachedBuckets(@)])
    /\ UNCHANGED <<coreVars, oldVars, rs, df, nh, ml, ks, ft>>

\* rebuild: the new tree is built aside and mt.Buckets is pointed at its
\* buckets; a handler that is ranging over the old buckets keeps them.
TreeRebuildBuckets ==
    /\ tc.w.pc = "rebuild"
    /\ LET newTree == MerkleTree_rebuild(tc.tree)
       IN  tc' = [tc EXCEPT !.tree.Buckets = newTree.Buckets,
                            !.w.new = newTree,
                            !.w.pc = "rebuilt",
                            !.r.live = IF tc.r.pc = "hashes" THEN FALSE ELSE @,
                            !.r.snap = IF tc.r.pc = "hashes" /\ tc.r.live
                                       THEN tc.tree.Buckets ELSE @]
    /\ UNCHANGED <<coreVars, oldVars, rs, df, nh, ml, ks, ft>>

\* rebuild: NumBuckets, Root and totalHashes follow, and the operation
\* returns.
TreeRebuildRest ==
    /\ tc.w.pc = "rebuilt"
    /\ tc' = Returned([tc EXCEPT !.tree.NumBuckets = tc.w.new.NumBuckets,
                                 !.tree.Root = tc.w.new.Root,
                                 !.tree.totalHashes = tc.w.new.totalHashes])
    /\ UNCHANGED <<coreVars, oldVars, rs, df, nh, ml, ks, ft>>

\* handleTreeBucketHashesRequest: the request is decoded and the bucket
\* count compared; a request for another count gets no answer.
HandlerCheck(numBuckets) ==
    /\ tc.r.pc = "idle"
    /\ tc' = [tc EXCEPT
                !.r.nb = numBuckets,
                !.r.pc = IF tc.tree.NumBuckets # numBuckets THEN "refused" ELSE "range",
                !.whole = {Snapshot(IF tc.w.pc = "idle" THEN tc.tree ELSE tc.w.pre)}]
    /\ UNCHANGED <<coreVars, oldVars, rs, df, nh, ml, ks, ft>>

\* GetBucketHashes: the result is made and the loop takes mt.Buckets.
HandlerRange ==
    /\ tc.r.pc = "range"
    /\ tc' = [tc EXCEPT !.r.pc = "hashes", !.r.n = Len(tc.tree.Buckets), !.r.i = 1,
                        !.r.live = TRUE, !.r.out = <<>>]
    /\ UNCHANGED <<coreVars, oldVars, rs, df, nh, ml, ks, ft>>

\* GetBucketHashes: bucket.GetHash() of the next bucket, which caches it.
HandlerGetHash ==
    /\ tc.r.pc = "hashes"
    /\ LET i == tc.r.i
           b == IF tc.r.live THEN tc.tree.Buckets[i] ELSE tc.r.snap[i]
       IN  tc' = [tc EXCEPT
                    !.r.out = Append(@, Bucket_GetHash(b)),
                    !.r.i = i + 1,
                    !.r.pc = IF i = tc.r.n THEN "done" ELSE "hashes",
                    !.tree.Buckets = IF tc.r.live
                                     THEN [@ EXCEPT ![i] = Bucket_Cached(b)] ELSE @]
    /\ UNCHANGED <<coreVars, oldVars, rs, df, nh, ml, ks, ft>>

NextShared ==
    \/ \E hash \in SomeHashes : TreeCall("insert", hash)
    \/ \E hash \in SomeHashes : TreeCall("delete", hash)
    \/ TreeModify
    \/ TreeInvalidate
    \/ TreeRoot
    \/ TreeRebuildBuckets
    \/ TreeRebuildRest
    \/ \E numBuckets \in 1..2 : HandlerCheck(numBuckets)
    \/ HandlerRange
    \/ HandlerGetHash

SpecShared == InitShared /\ [][NextShared]_vars

\* ------------------------------------------------- the master's log
\* ml: the master's data table (the hashes of its rows), its live tree, its
\* peers table, the node properties, and the updates it has published since
\* the start of the behaviour.
RECURSIVE InsertInOrder(_, _)
\* The tree after Insert of each hash in turn.
InsertInOrder(t, hashes) ==
    IF hashes = <<>> THEN t
    ELSE InsertInOrder(MerkleTree_Insert(t, Head(hashes)).tree, Tail(hashes))

\* The entries the master holds at the start: it has added n files, one
\* after the other, to an empty vault.
HeldAtStart == {0, 1, 9, 10, 11}

\* The hashes of the entries it adds or deletes later.
LogHashes == {0, 10, 11, TreeSpace - 1}

InitMasterLog ==
    /\ IdleCore /\ IdleOld /\ IdleRange /\ IdleDiff /\ IdleNotify /\ IdleConcTree /\ IdleKeys /\ IdleVault
    /\ ml \in {MasterLog({i - 1 : i \in 1..n},
                         InsertInOrder(newMerkleTree(<<>>), FirstHashes(n)), n) :
                  n \in HeldAtStart}

\* The update PublishDataUpdate and PublishPeerUpdate sign and store.
LogUpdate(id, plh, pplh, dh, pdh, nb, type) ==
    [id |-> id, plh |-> plh, pplh |-> pplh, dh |-> dh, pdh |-> pdh, nb |-> nb,
     type |-> type]

\* PublishDataUpdate(action, key, value, size, hash) for a new entry (ADD)
\* or an entry the table holds (DELETE).
MasterPublishData(action, hash) ==
    /\ Len(ml.log) < MaxLog
    /\ IF action = "ADD" THEN hash \notin ml.rows ELSE hash \in ml.rows
    /\ LET currentID == ml.current_update_id
           prevDataHash == ml.data_hash
           prevPeerHash == ml.peer_list_hash
           rows == IF action = "ADD" THEN ml.rows \cup {hash} ELSE ml.rows \ {hash}
           tree == IF action = "ADD" THEN MerkleTree_Insert(ml.tree, hash).tree
                   ELSE MerkleTree_Delete(ml.tree, hash).tree
           newDataHash == MerkleTree_GetRootHash(tree)
           update == LogUpdate(currentID + 1, prevPeerHash, prevPeerHash,
                               newDataHash, prevDataHash, tree.NumBuckets, "DATA")
       IN  ml' = [ml EXCEPT !.rows = rows, !.tree = tree,
                            !.log = Append(@, update),
                            !.current_update_id = update.id,
                            !.data_hash = newDataHash,
                            !.op = "publish"]
    /\ UNCHANGED <<coreVars, oldVars, rs, df, nh, tc, ks, ft>>

\* BindNewPeer: AddPeer, then PublishPeerUpdate("ADD", peerID, addrs).
MasterBindNewPeer(peerID) ==
    /\ Len(ml.log) < MaxLog
    /\ peerID \notin ml.peers
    /\ LET peers == ml.peers \cup {peerID}
           newPeerHash == Blake3(Sorted(peers))
           update == LogUpdate(ml.current_update_id + 1, newPeerHash, ml.peer_list_hash,
                               ml.data_hash, ml.data_hash, 0, "PEER")
       IN  ml' = [ml EXCEPT !.peers = peers,
                            !.log = Append(@, update),
                            !.current_update_id = update.id,
                            !.peer_list_hash = newPeerHash,
                            !.op = "bind"]
    /\ UNCHANGED <<coreVars, oldVars, rs, df, nh, tc, ks, ft>>

\* App.RemovePeer: the row of the peers table is deleted.
MasterRemovePeer(peerID) ==
    /\ peerID \in ml.peers
    /\ ml' = [ml EXCEPT !.peers = @ \ {peerID}, !.op = "remove_peer"]
    /\ UNCHANGED <<coreVars, oldVars, rs, df, nh, tc, ks, ft>>

\* The master is started again: coreStartup builds the tree from the data
\* table and stores its root as data_hash.
MasterRestart ==
    /\ ml.op # "restart"
    /\ LET merkleTree == newMerkleTree(Sorted(ml.rows))
       IN  ml' = [ml EXCEPT !.tree = merkleTree,
                            !.data_hash = MerkleTree_GetRootHash(merkleTree),
                            !.op = "restart"]
    /\ UNCHANGED <<coreVars, oldVars, rs, df, nh, tc, ks, ft>>

NextMasterLog ==
    \/ \E hash \in LogHashes : MasterPublishData("ADD", hash)
    \/ \E hash \in LogHashes : MasterPublishData("DELETE", hash)
    \/ \E peerID \in {1, 2} : MasterBindNewPeer(peerID)
    \/ \E peerID \in {1, 2} : MasterRemovePeer(peerID)
    \/ MasterRestart

SpecMasterLog == InitMasterLog /\ [][NextMasterLog]_vars

\* ---- The keys of a node: the node table and the keys in memory ----

\* Bound: the seeds a random peer key is drawn from.
MaxSeed == 3

\* Bound: the mnemonics a vault is made from.
MaxMnemonic == 2

\* ed25519: the public key of a private key.
Public(priv) == <<"pub", priv>>

Sum256(key) == <<"sha256", key>>

CryptoKeys(mpriv, mpub, ppriv, ppub, aes) ==
    [MasterPrivateKey |-> mpriv, MasterPublicKey |-> mpub,
     PeerPrivateKey |-> ppriv, PeerPublicKey |-> ppub, AESKey |-> aes]

\* crypto.CreatePeerOnlyKeys: a random peer keypair and nothing else.
PeerOnlyKeys(seed) == CryptoKeys(<<>>, <<>>, <<seed>>, Public(<<seed>>), <<>>)

\* crypto.SetupKeysFromMnemonic: the master keypair and the content key come
\* from the mnemonic, the peer keypair from a random seed.
SetupKeysFromMnemonic(mnemonic, seed) ==
    CryptoKeys(<<mnemonic>>, Public(<<mnemonic>>), <<seed>>, Public(<<seed>>),
               Sum256(<<mnemonic>>))

NewCryptoKeysFromBytes(masterPriv, peerPriv, aesKey) ==
    CryptoKeys(masterPriv, Public(masterPriv), peerPriv, Public(peerPriv), aesKey)

\* database.StoreKeys: the three rows are always written, each the base64
\* text of the key (the empty text for a key that is nil); the master public
\* key only when there is one.
StoreKeys(rows, keys) ==
    [master_private_key |-> EncodeToString(keys.MasterPrivateKey),
     peer_private_key |-> EncodeToString(keys.PeerPrivateKey),
     aes_key |-> EncodeToString(keys.AESKey),
     master_public_key |-> IF keys.MasterPublicKey # <<>>
                           THEN EncodeToString(keys.MasterPublicKey)
                           ELSE rows.master_public_key]

\* database.GetKeys: nil (the empty sequence) when one of the three rows is
\* missing or holds the empty text, else the keys rebuilt from the rows.
GetKeys(rows) ==
    IF \/ rows.master_private_key = NoRow
       \/ rows.peer_private_key = NoRow
       \/ rows.aes_key = NoRow
       \/ rows.master_private_key = EncodeToString(<<>>)
       \/ rows.peer_private_key = EncodeToString(<<>>)
       \/ rows.aes_key = EncodeToString(<<>>)
    THEN <<>>
    ELSE <<NewCryptoKeysFromBytes(DecodeString(rows.master_private_key),
                                  DecodeString(rows.peer_private_key),
                                  DecodeString(rows.aes_key))>>

InitKeys ==
    /\ IdleCore /\ IdleOld /\ IdleRange /\ IdleDiff /\ IdleNotify /\ IdleConcTree /\ IdleMasterLog /\ IdleVault
    /\ ks = EmptyKeyStore

KeysStored(keys, authorized, op) ==
    ks' = [ks EXCEPT !.node = StoreKeys(ks.node, keys), !.keys = <<keys>>,
                     !.stored = <<keys>>, !.authorized = authorized, !.op = op]

\* App.CreateNewVault.
KeysCreateNewVault(mnemonic, seed) ==
    /\ KeysStored(SetupKeysFromMnemonic(mnemonic, seed), ks.authorized, "create")
    /\ UNCHANGED <<coreVars, oldVars, rs, df, nh, tc, ml, ft>>

\* App.StartReplicaBinding: peer-only keys are made and stored when the app
\* holds no keys; the keys it holds are kept otherwise.
KeysStartReplicaBinding(seed) ==
    /\ IF ks.keys = <<>>
       THEN KeysStored(PeerOnlyKeys(seed), ks.authorized, "bind")
       ELSE ks' = [ks EXCEPT !.op = "bind"]
    /\ UNCHANGED <<coreVars, oldVars, rs, df, nh, tc, ml, ft>>

\* The callback of StartBinding: the master has added this node's peer id to
\* its peer list and sent its public key, which is stored with the keys.
KeysBindingComplete(mnemonic) ==
    /\ ks.op = "bind"
    /\ ks.keys # <<>>
    /\ KeysStored([ks.keys[1] EXCEPT !.MasterPublicKey = Public(<<mnemonic>>)],
                  ks.keys[1].PeerPublicKey, "bound")
    /\ UNCHANGED <<coreVars, oldVars, rs, df, nh, tc, ml, ft>>

\* App.startup of a new process over the same database.
KeysStartup ==
    /\ ks.op # ""
    /\ ks' = [ks EXCEPT !.keys = GetKeys(ks.node), !.op = "startup"]
    /\ UNCHANGED <<coreVars, oldVars, rs, df, nh, tc, ml, ft>>

NextKeys ==
    \/ \E mnemonic \in 1..MaxMnemonic, seed \in 1..MaxSeed : KeysCreateNewVault(mnemonic, seed)
    \/ \E seed \in 1..MaxSeed : KeysStartReplicaBinding(seed)
    \/ \E mnemonic \in 1..MaxMnemonic : KeysBindingComplete(mnemonic)
    \/ KeysStartup

SpecKeys == InitKeys /\ [][NextKeys]_vars

\* ---- The data table of an unlocked app, with folder tags ----

\* Bound: the entries an app adds.
MaxEntries == 2

EntryNames == {"a", "b"}

\* The folder_tag of a row that was written without one.
NullTag == <<"null", -1>>

\* computeFolderTag: the tag of a folder under the content key.
computeFolderTag(folderID) == <<"tag", folderID>>

FileEntry(name, folderID) ==
    [Type |-> "file", Name |-> name, FolderID |-> folderID, ParentFolderID |-> -1]

FolderEntry(name, folderID, parentFolderID) ==
    [Type |-> "folder", Name |-> name, FolderID |-> folderID,
     ParentFolderID |-> parentFolderID]

\* crypto.Encrypt of an entry: the nonce is random, no two keys are equal.
EncryptedKey(entry, nonce) == [entry |-> entry, nonce |-> nonce]

\* INSERT OR REPLACE INTO data (key, value, size, hash, folder_tag).
PutDataWithTag(rows, key, folderTag) ==
    {r \in rows : r.key # key} \cup {[key |-> key, folder_tag |-> folderTag]}

\* INSERT OR REPLACE INTO data (key, value, size, hash): the row of the key
\* is replaced, the new row has no folder_tag.
PutDataRow(rows, key) ==
    {r \in rows : r.key # key} \cup {[key |-> key, folder_tag |-> NullTag]}

DeleteDataRow(rows, key) == {r \in rows : r.key # key}

\* Storage.ListFolder: the entries of the rows that carry the folder's tag.
ListFolder(rows, folderID) ==
    {r.key.entry : r \in {x \in rows : x.folder_tag = computeFolderTag(folderID)}}

\* PublishDataUpdate("ADD") and ("DELETE") as far as the data table goes:
\* insertData and deleteData.
PublishedAdd(rows, key) == PutDataRow(rows, key)

InitVault ==
    /\ IdleCore /\ IdleOld /\ IdleRange /\ IdleDiff /\ IdleNotify /\ IdleConcTree /\ IdleMasterLog /\ IdleKeys
    /\ \E core \in BOOLEAN : ft = EmptyVault(core)

\* App.CreateFolder: CreateFolderWithEntry, then the master's core publishes
\* the ADD.
AppCreateFolder(name, parentID) ==
    /\ ft.nonce < MaxEntries
    /\ LET key == EncryptedKey(FolderEntry(name, ft.nextFolderID, parentID), ft.nonce)
           stored == PutDataWithTag(ft.rows, key, computeFolderTag(parentID))
       IN  ft' = [ft EXCEPT !.rows = IF ft.core THEN PublishedAdd(stored, key) ELSE stored,
                            !.nonce = @ + 1, !.nextFolderID = @ + 1,
                            !.op = "create_folder", !.key = key, !.folder = parentID,
                            !.published = ft.core]
    /\ UNCHANGED <<coreVars, oldVars, rs, df, nh, tc, ml, ks>>

\* App.AddFile: AddFileWithEntry, then the master's core publishes the ADD.
AppAddFile(name, folderID) ==
    /\ ft.nonce < MaxEntries
    /\ LET key == EncryptedKey(FileEntry(name, folderID), ft.nonce)
           stored == PutDataWithTag(ft.rows, key, computeFolderTag(folderID))
       IN  ft' = [ft EXCEPT !.rows = IF ft.core THEN PublishedAdd(stored, key) ELSE stored,
                            !.nonce = @ + 1,
                            !.op = "add_file", !.key = key, !.folder = folderID,
                            !.published = ft.core]
    /\ UNCHANGED <<coreVars, oldVars, rs, df, nh, tc, ml, ks>>

\* App.DeleteFile and App.DeleteFolder: the first row of GetAllData whose
\* entry matches is deleted.
AppDelete(entry) ==
    /\ \E r \in ft.rows : r.key.entry = entry
    /\ LET found == {r \in ft.rows : r.key.entry = entry}
           first == CHOOSE r \in found : \A x \in found : r.key.nonce <= x.key.nonce
       IN  ft' = [ft EXCEPT !.rows = DeleteDataRow(@, first.key),
                            !.op = "delete", !.key = first.key, !.folder = -1,
                            !.published = ft.core]
    /\ UNCHANGED <<coreVars, oldVars, rs, df, nh, tc, ml, ks>>

\* App.ListFolder.
AppListFolder(folderID) ==
    /\ ft' = [ft EXCEPT !.listed = ListFolder(ft.rows, folderID), !.op = "list_folder",
                        !.folder = folderID]
    /\ UNCHANGED <<coreVars, oldVars, rs, df, nh, tc, ml, ks>>

NextVault ==
    \/ \E name \in EntryNames, parentID \in 0..MaxEntries : AppCreateFolder(name, parentID)
    \/ \E name \in EntryNames, folderID \in 0..MaxEntries : AppAddFile(name, folderID)
    \/ \E r \in ft.rows : AppDelete(r.key.entry)
    \/ \E folderID \in 0..MaxEntries : AppListFolder(folderID)

SpecVault == InitVault /\ [][NextVault]_vars

TypeOK ==
    /\ \A n \in Node : node[n].cur \in 0..MaxUpdateID
    /\ \A t \in Threads : pub[t].pc \in {"idle", "read", "signed", "inserted"}

\* ------------------------------------------------------------------ claims
\* The last step was a processUpdate on the replica that returned res.
Processed(res) == last.op = "process" /\ last.res = res

\* The state of the master that a publish call may touch.
Published(s) == <<s.rows, s.stale, s.tree, s.peers, s.dataHash, s.plHash, s.cur>>

\* C1: processUpdate advances current_update_id to the update's id only when
\* the replica's Merkle root equals the update's data_hash and the hash of
\* its peers table equals the update's peer_list_hash (after an accepted
\* update the two stored hashes are the update's).
C1_AdvanceOnlyInSync ==
    Processed("ok") =>
        /\ GetRootHash(node["R"].tree) = node["R"].dataHash
        /\ ComputePeerListHash(node["R"].peers) = node["R"].plHash

C3_AllOrNothing ==
    [][(last'.op = "process" /\ last'.res = "err") => node' = node]_vars

\* C4: processUpdate on an update whose signature does not verify changes no
\* state and opens no stream to the sender.
C4_BadSignatureRefused ==
    [][\A su \in net :
          ProcessUpdate(Forged(su), AllStreamsWork) =>
              /\ node' = node
              /\ last'.res = "badsig"
              /\ last'.streams = {}]_vars

\* A forged update with an id above the replica's was refused.
C4_Witness ==
    /\ Processed("badsig")
    /\ node["R"].cur = 0
    /\ \E su \in net : Forged(su).id > 0

C6_OneHashChanges ==
    \A t \in Threads :
        pub[t].su # <<>> =>
            LET u == pub[t].su[1]
            IN  /\ u.id = pub[t].currentID + 1
                /\ u.type = "DATA" => (u.dh # u.pdh /\ u.plh = u.pplh)
                /\ u.type = "PEER" => (u.plh # u.pplh /\ u.dh = u.pdh)

\* C7: under overlapping publish calls the signed updates have distinct ids,
\* the master's log holds an update for each id up to current_update_id, and
\* a stored update is never replaced.
C7_DistinctIdsLogKept ==
    [][/\ \A t1, t2 \in Threads :
             (t1 # t2 /\ pub'[t1].su # <<>> /\ pub'[t2].su # <<>>) =>
                 pub'[t1].su[1].id # pub'[t2].su[1].id
       /\ \A i \in 1..node'["M"].cur : node'["M"].log[i] # <<>>
       /\ \A i \in 1..MaxUpdateID :
             node["M"].log[i] # <<>> => node'["M"].log[i] = node["M"].log[i]]_vars

\* C8: a publish call that fails after it changed local state leaves the data
\* table, the Merkle tree, the peers table, data_hash, peer_list_hash and
\* current_update_id as they were when it was called, and broadcasts nothing.
C8_PublishRollsBack ==
    [][\A t \in Threads :
          (pub[t].pc = "signed" /\ pub'[t].pc = "idle" /\ last'.res = "err") =>
              /\ Published(node'["M"]) = Published(pub[t].pre[1])
              /\ net' = net]_vars

\* C9: PublishDataUpdate and PublishPeerUpdate on a node without the master
\* private key return an error.
C9_NoKeyIsAnError ==
    (last.n = "R" /\ last.op \in {"DATA", "PEER"}) => last.res = "err"

\* C10: a data update that the replica accepts by fast-forward (its
\* prev_data_hash is the replica's data_hash) leaves the Merkle root equal to
\* the update's data_hash.
C10_FastForwardVerified ==
    [][\A su \in net :
          (/\ su.type = "DATA"
           /\ su.id > node["R"].cur
           /\ su.dh # node["R"].dataHash
           /\ su.pdh = node["R"].dataHash
           /\ ProcessUpdate(su, AllStreamsWork)
           /\ last'.res = "ok") =>
              GetRootHash(node'["R"].tree) = su.dh]_vars

\* The update takes the Merkle-diff path of syncDataFull on the replica: a
\* data_hash that is not the replica's, no fast-forward, equal bucket counts.
DiffSyncCase(su) ==
    /\ VerifySignedUpdate(su)
    /\ su.id > node["R"].cur
    /\ su.dh # node["R"].dataHash
    /\ ~(su.pdh = node["R"].dataHash /\ su.type = "DATA")
    /\ node["R"].tree.nb = su.nb

\* The serving peer holds the state of the update.
PeerHolds(su) ==
    /\ GetRootHash(node["M"].tree) = su.dh
    /\ node["M"].tree.hs = node["M"].rows

\* C11: a Merkle-diff sync with equal bucket counts against a peer that holds
\* the update's state succeeds, and leaves the replica with the peer's
\* entries, in the data table and in the tree, and with the update's root.
C11_DiffSyncReachesPeerState ==
    [][\A su \in net :
          (DiffSyncCase(su) /\ PeerHolds(su) /\ ProcessUpdate(su, AllStreamsWork)) =>
              /\ last'.res = "ok"
              /\ node'["R"].rows = node["M"].rows
              /\ node'["R"].tree.hs = node["M"].rows
              /\ GetRootHash(node'["R"].tree) = su.dh]_vars

\* The update takes the rebuild path of syncDataFull on the replica: a
\* data_hash that is not the replica's, no fast-forward, other bucket count.
RebuildCase(su) ==
    /\ VerifySignedUpdate(su)
    /\ su.id > node["R"].cur
    /\ su.dh # node["R"].dataHash
    /\ ~(su.pdh = node["R"].dataHash /\ su.type = "DATA")
    /\ node["R"].tree.nb # su.nb

\* C12: when the bucket counts differ, a rebuild that returns success leaves
\* the tree with exactly the update's num_buckets buckets and the update's
\* data_hash as root, and the data table with a row for exactly the hashes of
\* the tree.
C12_RebuildTakesUpdateShape ==
    [][\A su \in net, f \in NetInputs :
          (RebuildCase(su) /\ ProcessUpdate(su, f) /\ last'.res = "ok") =>
              /\ node'["R"].tree.nb = su.nb
              /\ GetRootHash(node'["R"].tree) = su.dh
              /\ node'["R"].rows = node'["R"].tree.hs]_vars

C14_UnauthorizedStreamReset ==
    [][\A n \in Node, q \in PeerIDs, proto \in SyncProtocols :
          (q \notin node[n].allowed /\ HandleStream(n, q, proto)) =>
              /\ last'.res = "reset"
              /\ last'.streams = {}]_vars

\* A peer outside the authorized set of a node that has authorized another
\* peer opened a stream on it, and the stream was reset.
C14_Witness ==
    /\ last.op = "inbound" /\ last.res = "reset"
    /\ node[last.n].allowed # {}
    /\ last.peer \notin node[last.n].allowed

\* C15: opening a stream to peer p is refused with "peer not allowed" if and
\* only if p is not in the authorized set.
C15_OutboundRefusedIffNotAllowed ==
    [][\A n \in Node, q \in PeerIDs :
          NewStreamToPeer(n, q) =>
              (last'.res = "peer not allowed" <=> q \notin node[n].allowed)]_vars

\* C16: the in-memory authorized set of a node holds the peer ids of its
\* peers table.
C16_AllowedMirrorsTable ==
    \A n \in Node : node[n].allowed = node[n].peers

\* C17: mutualVerification returns true only for a peer that computed its
\* response from the same phrase; from any other peer, whatever it sends (its
\* own challenge or the verifier's, a response of its own or the one it
\* read), no ClientInfoMsg is accepted and no master key or peer is installed.
C17_VerifiedOnlyWithPhrase ==
    /\ bind.result => KnowsPhrase(bind.peer)
    /\ bind.clientInfo # <<>> => KnowsPhrase(bind.peer)
    /\ node["R"].bound => KnowsPhrase(bind.peer)

\* C18: when a bind of the replica completes, the replica holds the master
\* key and has the master in its peers table and authorized set, the master
\* has the replica in its peers table and authorized set, and exactly one
\* update was published by the bind: the PEER ADD of the replica, whose
\* peer_list_hash is the hash of the master's peers table.
C18_BindPublishesPeerAdd ==
    [][\A t \in Threads :
          (pub[t].op = "PEER" /\ pub[t].pc # "idle" /\ pub'[t].pc = "idle") =>
              LET su == pub[t].su[1]
              IN  /\ node'["R"].bound
                  /\ "M" \in node'["R"].peers /\ "M" \in node'["R"].allowed
                  /\ "R" \in node'["M"].peers /\ "R" \in node'["M"].allowed
                  /\ net' \ net = {su}
                  /\ su.type = "PEER" /\ su.action = "ADD" /\ su.peer = "R"
                  /\ su.plh = ComputePeerListHash(node'["M"].peers)]_vars

\* C20: after every successful publish on the master and every successful
\* processUpdate on the replica, the update the node broadcasts in reply to
\* request_latest_update is the signed update whose id is the node's
\* current_update_id.
C20_ReplyIsCurrentUpdate ==
    [][\A n \in Node :
          (last'.n = n /\ last'.res = "ok" /\ last'.op \in {"publish", "process"}) =>
              LET reply == LatestUpdateReply(node'[n])
              IN  /\ reply # <<>>
                  /\ reply[1].id = node'[n].cur]_vars

\* C19: a bound replica that missed broadcasts catches up: when the master
\* stays at its latest update N (DATA or PEER) and nothing new is published,
\* the periodic request_latest_update gets update N broadcast again and the
\* replica eventually has current_update_id = N.
C19_ReplicaCatchesUp ==
    \A N \in 1..MaxUpdateID :
        <>[](node["R"].bound /\ node["M"].cur = N) => <>[](node["R"].cur = N)

\* C21: a blob whose download failed while its row was recorded is fetched
\* on a later periodic tick: every row with a blob eventually has the
\* complete blob (download_progress = size, the file hashes to its name),
\* also when nothing further is published, as long as the node keeps
\* receiving the master's replies over streams that work.
C21_BlobEventuallyComplete ==
    RepliesKeepComing =>
        \A h \in Blobs :
            (h \in dl.rows) ~> (dl.progress[h] = BlobSize(h) /\ Blake3File(dl.file[h]) = h)

\* The calls of downloadFile the last step made.
DownloadCalls == {dl.done[i] : i \in 1..Len(dl.done)}

\* A call whose reply came whole and undamaged onto a sound partial blob.
WholeReply(c) ==
    /\ c.wire.cut >= c.size - c.before
    /\ ~c.wire.corrupt
    /\ c.had = SubSeq(BlobData(c.hash), 1, c.before)

\* C22: downloadFile sends no request when the stored progress is the size,
\* and otherwise exactly one request with offset = progress and
\* length = size - progress; when the rest of the blob then arrives the blob
\* holds exactly size units.
C22_OneRequestFromProgress ==
    \A c \in DownloadCalls :
        /\ c.before = c.size => c.reqs = <<>>
        /\ c.before # c.size =>
              /\ c.reqs = <<[hash |-> c.hash, offset |-> c.before,
                             length |-> c.size - c.before]>>
              /\ WholeReply(c) => Len(c.file) = c.size /\ c.progress = c.size

\* The same for the calls whose stream to the peer opened.
C22_OneRequestWhenStreamOpens ==
    \A c \in DownloadCalls :
        c.err # "peer not allowed" =>
            /\ c.before = c.size => c.reqs = <<>>
            /\ c.before # c.size =>
                  /\ c.reqs = <<[hash |-> c.hash, offset |-> c.before,
                                 length |-> c.size - c.before]>>
                  /\ WholeReply(c) => Len(c.file) = c.size /\ c.progress = c.size

\* A transfer cut after some units was resumed and completed.
C22_Resumed ==
    \E c \in DownloadCalls :
        c.before > 0 /\ c.before < c.size /\ c.err = "" /\ Len(c.file) = c.size
\* What the blob holds once the call c has written all it asked for.
WrittenBlob(c) == c.had \o Received(handleFileDataRequest(c.reqs[1]), c.wire)

\* The call c wrote every unit it asked for.
WroteAll(c) == c.reqs # <<>> /\ c.wire.cut >= c.size - c.before

ClosedEarly == md.op = "request" /\ md.err # "peer not allowed" /\ Len(md.sent) < Len(md.want)

\* C24: when the metadata server closes the stream before it has returned
\* an entry for every requested hash, RequestMetadata reports failure and
\* none of the entries asked for is inserted into the data table or the tree.
C24_EarlyCloseFailsBatch ==
    ClosedEarly => md.err # "" /\ md.rows = md.had /\ md.tree = md.had

\* Entries of an early closed request were inserted.
C24_PartialInserted == ClosedEarly /\ md.err = "" /\ md.rows # md.had
\* The orders the hashes of a tree are listed in: every order of a small
\* set, the ascending and the descending order of a larger one.
ListingsOf(H) ==
    IF Cardinality(H) <= Cardinality(SomeHashes) THEN Perms(H)
    ELSE {Sorted(H), [i \in 1..Cardinality(H) |-> Sorted(H)[Cardinality(H) + 1 - i]]}

\* C25: the bucket hashes and the root depend on the hash set and the
\* bucket count only: a tree built from any list or reached by any inserts
\* and deletes has the bucket hashes and root of newMerkleTreeWithBuckets
\* of any listing of its hash set with its bucket count.
C25_TreeIsFunctionOfSet ==
    \A l \in ListingsOf(TreeHashes(mt.tree)) :
        LET ref == newMerkleTreeWithBuckets(l, mt.tree.NumBuckets)
        IN  /\ MerkleTree_GetBucketHashes(mt.tree) = MerkleTree_GetBucketHashes(ref)
            /\ MerkleTree_GetRootHash(mt.tree) = MerkleTree_GetRootHash(ref)
            /\ mt.tree.totalHashes = ref.totalHashes

\* Inserts and deletes reached a set of several hashes in several buckets.
C25_Witness ==
    /\ mt.op \in {"insert", "delete"} /\ ~mt.present
    /\ mt.tree.NumBuckets > 1 /\ mt.tree.totalHashes >= 4
    /\ \E i, j \in 1..mt.tree.NumBuckets :
          i # j /\ Len(mt.tree.Buckets[i].Hashes) >= 2 /\ Len(mt.tree.Buckets[j].Hashes) >= 1

\* C26: Insert of a hash the tree holds leaves the buckets, the bucket
\* count, the total and the root as they were.
C26_InsertIdempotent ==
    [][(mt'.op = "insert" /\ mt'.arg \in TreeHashes(mt.tree)) => mt'.tree = mt.tree]_vars

\* A hash was inserted a second time, in a tree of several buckets.
C26_Witness ==
    /\ mt.op = "insert" /\ mt.present /\ mt.arg \in TreeHashes(mt.tree)
    /\ mt.tree.NumBuckets > 1 /\ mt.tree.totalHashes >= 2
\* C30: after every operation on a tree made by newMerkleTree, with N
\* hashes in B buckets: B >= 1, N/B <= 20, B = 1 or N/B >= 2.5, and a
\* rebuild leaves B = max(1, ceiling of N/10).
C30_BucketCountInRange ==
    LET N == mt.tree.totalHashes
        B == mt.tree.NumBuckets
    IN  /\ N = Cardinality(TreeHashes(mt.tree))
        /\ B = Len(mt.tree.Buckets)
        /\ B >= 1
        /\ N <= 20 * B
        /\ B = 1 \/ 2 * N >= 5 * B
        /\ mt.rebuilt => B = (IF N = 0 THEN 1 ELSE (N + 9) \div 10)

\* The insert of the 21st hash rebuilt a tree of one bucket into three.
C30_Witness ==
    /\ mt.op = "insert" /\ mt.rebuilt
    /\ mt.tree.totalHashes = 21 /\ mt.tree.NumBuckets = 3

\* A delete rebuilt a tree of several buckets into one.
C30_Shrunk ==
    /\ mt.op = "delete" /\ mt.rebuilt
    /\ mt.tree.NumBuckets = 1 /\ mt.tree.totalHashes >= 4
\* C27: right after CreateNewVault on a fresh node the app state is
\* unlocked, current_update_id is 0 and data_hash and peer_list_hash are
\* 32 zero bytes.
C27_FreshVault ==
    (app.op = "create_vault" /\ app.was = "fresh") =>
        /\ GetAppState(app) = "unlocked"
        /\ Atoi(app.current_update_id) = 0
        /\ DecodeString(app.data_hash) = Zero32
        /\ DecodeString(app.peer_list_hash) = Zero32

\* A vault was created on a fresh node.
C27_Witness ==
    /\ app.op = "create_vault" /\ app.was = "fresh"
    /\ GetAppState(app) = "unlocked" /\ app.core /\ app.rows = {}
\* C28: DecryptStream of EncryptStream of x under one key gives x back,
\* for every plaintext and key and however the reader split x into reads.
C28_StreamRoundTrip ==
    cs.op = "round trip" => cs.err = "" /\ cs.out = cs.x

\* The same when every read but the last filled the buffer.
C28_RoundTripOfFullReads ==
    (cs.op = "round trip" /\ cs.reads = FullReads(Len(cs.x))) =>
        cs.err = "" /\ cs.out = cs.x

\* A plaintext of several full frames came back.
C28_FullFramesBack ==
    /\ cs.op = "round trip" /\ Len(cs.x) = 2 * chunkSize
    /\ cs.reads = FullReads(Len(cs.x)) /\ cs.err = "" /\ cs.out = cs.x
\* A folder was created by the last step.
FolderCreated == stor.op = "create_folder" /\ stor.err = ""

\* C29: the folder id a create_folder allocates is one more than the
\* greatest existing folder id, the root being folder 0.
C29_NextFolderID ==
    FolderCreated => stor.got = MaxOf(stor.had \cup {0}) + 1

\* The same for the creates that follow a reload in a vault with folders.
C29_AfterReload ==
    (FolderCreated /\ stor.after = "reload" /\ stor.had # {}) =>
        stor.got = MaxOf(stor.had \cup {0}) + 1

\* A create after a delete_folder got an id that is not the greatest + 1.
C29_WrongAfterDelete ==
    /\ FolderCreated /\ stor.after = "delete_folder" /\ stor.had # {}
    /\ stor.got # MaxOf(stor.had \cup {0}) + 1

\* A create after a failed create got an id that is not the greatest + 1.
C29_WrongAfterFailedCreate ==
    /\ FolderCreated /\ stor.after = "failed create" /\ stor.had # {}
    /\ stor.got # MaxOf(stor.had \cup {0}) + 1

\* C31: a range scan of the data table for bucket i of B returns a stored
\* hash exactly when the Merkle tree puts the hash in bucket i, the last
\* bucket and the greatest hash included, and computing the range never fails.
C31_RangeScanMatchesTree ==
    rs.op = "scan" =>
        /\ ~rs.panic
        /\ rs.hashes = {h \in rs.rows :
                           getBucketIndexIn(TreeSpace, h, rs.numBuckets) = rs.bucketIdx}

\* C32: DiffBuckets of two trees with the same bucket count returns exactly
\* the indices whose bucket hashes differ, none exactly when all bucket
\* hashes match, and the same indices whichever tree is the receiver; of two
\* trees with different bucket counts it returns every index of the tree
\* with more buckets: 0, 1, ... up to but not including max(B_a, B_b).
\* The loop of syncDataFull gives the same indices for equal bucket counts.
C32_DiffBuckets ==
    df.op = "diff" =>
        LET A == MerkleTree_GetBucketHashes(df.a)
            B == MerkleTree_GetBucketHashes(df.b)
            got == {df.ab[k] : k \in 1..Len(df.ab)}
            back == {df.ba[k] : k \in 1..Len(df.ba)}
            maxLen == IF Len(A) > Len(B) THEN Len(A) ELSE Len(B)
        IN  /\ Len(df.ab) = Cardinality(got)
            /\ back = got
            /\ IF Len(A) = Len(B)
               THEN /\ got = {i \in 0..Len(A) - 1 : A[i + 1] # B[i + 1]}
                    /\ (got = {}) <=> (A = B)
                    /\ df.inline = df.ab
                    /\ got = {i \in 0..Len(A) - 1 :
                                 df.a.Buckets[i + 1].Hashes # df.b.Buckets[i + 1].Hashes}
               ELSE got = 0..maxLen - 1

\* Two trees of three buckets that differ in one bucket only were compared.
C32_Witness ==
    /\ df.op = "diff"
    /\ df.a.NumBuckets = 3 /\ df.b.NumBuckets = 3
    /\ Len(df.ab) = 1

\* Trees of two and of three buckets were compared.
C32_WitnessCounts ==
    /\ df.op = "diff"
    /\ df.a.NumBuckets = 2 /\ df.b.NumBuckets = 3
    /\ df.ab = <<0, 1, 2>>

\* C33: whenever downloadFile is not executing, the download_progress of
\* every blob is at least 0, at most the blob's size, and equal to the
\* length of the blob file on disk (0 when there is no file).
\* A call of downloadFile that sent its request and got fewer units than it
\* asked for fails, and leaves the progress advanced by the units it appended.
ArrivedShort(c) ==
    /\ c.reqs # <<>>
    /\ Len(Received(handleFileDataRequest(c.reqs[1]), c.wire)) < c.reqs[1].length

C34_OneProcessUpdate ==
    Cardinality({i \in 1..Len(nh.calls) : nh.calls[i].pc = "processUpdate"}) <= 1

\* processUpdate runs for an update of one peer while updates of another
\* peer wait in the subscription.
C34_Witness ==
    /\ \E i \in 1..Len(nh.calls) :
          nh.calls[i].pc = "processUpdate" /\ nh.calls[i].msg.from = "M"
    /\ Len(nh.sub) = MaxInbox
    /\ \A k \in 1..Len(nh.sub) : nh.sub[k] = [type |-> "update", from |-> "P"]

\* C35: the tree is used under mutual exclusion: a goroutine inside Insert,
\* Delete or rebuild and a stream handler reading the bucket hashes are never
\* at work on the tree at the same time.
C35_MutualExclusion ==
    ~(tc.w.pc # "idle" /\ tc.r.pc \in {"range", "hashes"})

\* C35, what the reader sees: the answer of handleTreeBucketHashesRequest is
\* the bucket count and the bucket hashes the tree had before or after a
\* whole operation.
C35_ReaderSeesWholeTree ==
    tc.r.pc = "done" =>
        [nb |-> tc.r.nb, hashes |-> tc.r.out] \in
            tc.whole \cup (IF tc.w.pc = "idle" THEN {} ELSE {Snapshot(tc.w.post)})

\* Sanity of the steps: an operation no handler ran beside ends in the tree
\* the whole operation gives.
StepsMakeWholeOperation ==
    [][(tc.w.pc # "idle" /\ tc'.w.pc = "idle" /\ tc.r.pc \in {"idle", "refused"})
          => tc'.tree = tc.w.post]_vars

\* C36: whenever no publish and no sync is in progress on a node, the
\* hashes its Merkle tree holds are the hashes of the rows of its data table.
C36_TreeHoldsTableHashes ==
    (\A t \in Threads : pub[t].pc = "idle") =>
        \A n \in Node : node[n].tree.hs = node[n].rows

\* C37: in the master's log each update's prev_data_hash is the data_hash
\* of the update before it and its prev_peer_list_hash the peer_list_hash of
\* the update before it, also when the master was restarted or a peer was
\* removed from its peers table between the two.
C37_LogChains ==
    \A n \in 1..Len(ml.log) - 1 :
        /\ ml.log[n + 1].pdh = ml.log[n].dh
        /\ ml.log[n + 1].pplh = ml.log[n].plh

\* C37, the peer list half: it holds, restarts and removed peers included.
C37_PeerListChains ==
    \A n \in 1..Len(ml.log) - 1 : ml.log[n + 1].pplh = ml.log[n].plh

\* C38: the keys of a replica (a peer keypair, no master private key, no
\* content key) survive a restart: once they are stored, the keys a new
\* process reads from the database hold the same peer keypair.
ReplicaKeys(keys) == keys.MasterPrivateKey = <<>> /\ keys.AESKey = <<>>

C38_ReplicaKeysRoundTrip ==
    (ks.op = "startup" /\ ks.stored # <<>> /\ ReplicaKeys(ks.stored[1])) =>
        /\ ks.keys # <<>>
        /\ ks.keys[1].PeerPrivateKey = ks.stored[1].PeerPrivateKey
        /\ ks.keys[1].PeerPublicKey = ks.stored[1].PeerPublicKey

\* C38, its consequence: a bound replica keeps the peer id the master
\* authorized; the keys it holds are never those of another peer.
C38_KeepsAuthorizedPeer ==
    (ks.authorized # <<>> /\ ks.keys # <<>> /\ ReplicaKeys(ks.keys[1])) =>
        ks.keys[1].PeerPublicKey = ks.authorized

\* The keys of a vault do survive a restart.
VaultKeysRoundTrip ==
    (/\ ks.op = "startup" /\ ks.stored # <<>> /\ ~ReplicaKeys(ks.stored[1])
     /\ ks.stored[1].MasterPublicKey = Public(ks.stored[1].MasterPrivateKey)) =>
        ks.keys = ks.stored

\* C39: on the master, after add_file or create_folder into folder f has
\* returned and its ADD update was published, list_folder(f) contains the
\* new entry.
C39_ListedAfterPublish ==
    (ft.op \in {"add_file", "create_folder"} /\ ft.published) =>
        ft.key.entry \in ListFolder(ft.rows, ft.folder)

\* An app without a core publishes nothing: the entry is listed.
ListedWithoutPublish ==
    (ft.op \in {"add_file", "create_folder"} /\ ~ft.published) =>
        ft.key.entry \in ListFolder(ft.rows, ft.folder)

\* C40: create_folder never returns 0, the id of the root, and never the id
\* of a folder that exists, whatever creates, deletes, updates of other
\* devices and reloads of the counter came before.
C40_NeverRootNorExisting ==
    FolderCreated => (stor.got # 0 /\ stor.got \notin stor.had)

\* C40, the second half alone: the id is not that of a folder that exists.
C40_NeverExisting ==
    FolderCreated => stor.got \notin stor.had

\* A create right after a reload of the counter gets an id no folder has.
NeverExistingAfterReload ==
    (FolderCreated /\ stor.after = "reload") => stor.got \notin stor.had

====
